---------------------------- MODULE Spec2Model ----------------------------
(***************************************************************************)
(* Banner Billings pipeline of uacc-portal: filename classification, table *)
(* location, metadata scan, row extraction (BannerBillingsProcessor), the  *)
(* cross-sheet accumulator (BannerBillingsCombiner), the two rollups       *)
(* (BannerBillingsSummarizer), the report layout (ExcelReportGenerator)    *)
(* and the endpoint process_banner_billings.                               *)
(*                                                                         *)
(* Text is modelled by TLA+ strings handled character by character.  A     *)
(* cell of a sheet grid is either NA (an empty cell, pandas NaN) or a      *)
(* string; a numeric cell is modelled by its str() text, which is all the  *)
(* code reads of it.  A parsed amount is kept in cents.                    *)
(***************************************************************************)
EXTENDS Integers, Sequences, FiniteSets, TLC

(***************************************************************************)
(* Characters and the str methods the code uses                            *)
(***************************************************************************)
UpperLetters == "ABCDEFGHIJKLMNOPQRSTUVWXYZ"
LowerLetters == "abcdefghijklmnopqrstuvwxyz"
Digits == "0123456789"

Ch(s, i) == SubSeq(s, i, i)

\* 1-based index of character c in s, 0 when absent (str.find + 1)
IndexOf(c, s) ==
  LET hits == {i \in 1..Len(s) : Ch(s, i) = c}
  IN IF hits = {} THEN 0 ELSE CHOOSE i \in hits : \A j \in hits : i <= j

LastIndexOf(c, s) ==
  LET hits == {i \in 1..Len(s) : Ch(s, i) = c}
  IN IF hits = {} THEN 0 ELSE CHOOSE i \in hits : \A j \in hits : i >= j

UpperSet == {Ch(UpperLetters, i) : i \in 1..Len(UpperLetters)}
LowerSet == {Ch(LowerLetters, i) : i \in 1..Len(LowerLetters)}
DigitSet == {Ch(Digits, i) : i \in 1..Len(Digits)}
ToLower == [c \in UpperSet |-> Ch(LowerLetters, IndexOf(c, UpperLetters))]
ToUpper == [c \in LowerSet |-> Ch(UpperLetters, IndexOf(c, LowerLetters))]
DigitVal == [c \in DigitSet |-> IndexOf(c, Digits) - 1]

IsSpace(c) == c \in {" ", "\t"}
IsDigit(c) == c \in DigitSet
IsAlnum(c) == c \in DigitSet \/ c \in UpperSet \/ c \in LowerSet

LowerChar(c) == IF c \in UpperSet THEN ToLower[c] ELSE c
UpperChar(c) == IF c \in LowerSet THEN ToUpper[c] ELSE c

RECURSIVE Lower(_)
Lower(s) == IF s = "" THEN "" ELSE LowerChar(Ch(s, 1)) \o Lower(Tail(s))

RECURSIVE Upper(_)
Upper(s) == IF s = "" THEN "" ELSE UpperChar(Ch(s, 1)) \o Upper(Tail(s))

RECURSIVE LStrip(_)
LStrip(s) == IF s # "" /\ IsSpace(Ch(s, 1)) THEN LStrip(Tail(s)) ELSE s

RECURSIVE RStrip(_)
RStrip(s) ==
  IF s # "" /\ IsSpace(Ch(s, Len(s))) THEN RStrip(SubSeq(s, 1, Len(s) - 1)) ELSE s

Strip(s) == RStrip(LStrip(s))

\* s.replace(c, "") for a one-character c
RECURSIVE Remove(_, _)
Remove(s, c) ==
  IF s = "" THEN ""
  ELSE (IF Ch(s, 1) = c THEN "" ELSE Ch(s, 1)) \o Remove(Tail(s), c)

\* sub in s
Contains(s, sub) ==
  \E i \in 1..(Len(s) - Len(sub) + 1) : SubSeq(s, i, i + Len(sub) - 1) = sub

StartsWithAt(s, i, p) ==
  i + Len(p) - 1 <= Len(s) /\ SubSeq(s, i, i + Len(p) - 1) = p

\* pathlib.Path(filename).name and .stem (POSIX separators)
PathName(filename) ==
  SubSeq(filename, LastIndexOf("/", filename) + 1, Len(filename))

\* the position of the dot that starts the suffix of name, 0 when it has none
SuffixDot(name) ==
  LET i == LastIndexOf(".", name) IN IF 1 < i /\ i < Len(name) THEN i ELSE 0

StemOf(name, dot) == IF dot = 0 THEN name ELSE SubSeq(name, 1, dot - 1)
SuffixOf(name, dot) == IF dot = 0 THEN "" ELSE SubSeq(name, dot, Len(name))

StemOfName(name) == StemOf(name, SuffixDot(name))
SuffixOfName(name) == SuffixOf(name, SuffixDot(name))

PathStem(filename) == StemOfName(PathName(filename))
PathSuffix(filename) == SuffixOfName(PathName(filename))

(***************************************************************************)
(* Module constants of banner_billings_processor.py                        *)
(***************************************************************************)
INVOICE_TYPE_HOSPITAL == "hospital"
INVOICE_TYPE_PROFESSIONAL == "professional"
INVOICE_TYPE_UNKNOWN == "unknown"

TARGET_COLUMNS == <<"Charge Amount", "Adjustment", "Balance Due">>

TABLE_END_MARKERS == <<"TOTAL AMOUNT DUE", "BALANCE THIS STATEMENT">>

HOSPITAL_HEADER_ROWS == 1
PROFESSIONAL_HEADER_ROWS == 2

METADATA_FIELDS_HOSPITAL == <<"PI", "STUDY NAME", "IRB NO", "KFS NO">>
METADATA_FIELDS_PROFESSIONAL == <<"PI", "STUDY NAME", "STUDY CODE", "IRB NO", "KFS NO">>

\* the alternatives of _INVOICE_DATE_PATTERN in pattern order, each with its
\* two-digit month from _MONTH_TO_NUM
MonthAlternatives ==
  << <<"january", "01">>, <<"february", "02">>, <<"march", "03">>,
     <<"april", "04">>, <<"may", "05">>, <<"june", "06">>, <<"july", "07">>,
     <<"august", "08">>, <<"september", "09">>, <<"october", "10">>,
     <<"november", "11">>, <<"december", "12">>, <<"sept", "09">>,
     <<"jan", "01">>, <<"feb", "02">>, <<"mar", "03">>, <<"apr", "04">>,
     <<"jun", "06">>, <<"jul", "07">>, <<"aug", "08">>, <<"sep", "09">>,
     <<"oct", "10">>, <<"nov", "11">>, <<"dec", "12">> >>

(***************************************************************************)
(* FilenameClassifier                                                      *)
(***************************************************************************)
\* the category of a lowercased stem
TypeOfStem(name_lower) ==
  IF Contains(name_lower, "hospital") THEN INVOICE_TYPE_HOSPITAL
  ELSE IF Contains(name_lower, "professional") THEN INVOICE_TYPE_PROFESSIONAL
  ELSE INVOICE_TYPE_UNKNOWN

\* variant: the whole file name is searched, directories and extension included
get_invoice_type_from_whole_name(filename) ==
  IF filename = "" THEN INVOICE_TYPE_UNKNOWN ELSE TypeOfStem(Lower(filename))

get_invoice_type_from_filename(filename) ==
  IF filename = "" THEN INVOICE_TYPE_UNKNOWN ELSE TypeOfStem(Lower(PathStem(filename)))

\* number of whitespace characters of s starting at position i
RECURSIVE SpaceRun(_, _)
SpaceRun(s, i) ==
  IF i <= Len(s) /\ IsSpace(Ch(s, i)) THEN 1 + SpaceRun(s, i + 1) ELSE 0

\* the regex at position i with alternative k: month, \s+, \d{4}
\* (low is the lowercased name: re.IGNORECASE)
DateMatchAt(s, low, i, k) ==
  LET j == i + Len(MonthAlternatives[k][1])
      w == SpaceRun(s, j)
  IN /\ StartsWithAt(low, i, MonthAlternatives[k][1])
     /\ w >= 1
     /\ j + w + 3 <= Len(s)
     /\ \A d \in 0..3 : IsDigit(Ch(s, j + w + d))

\* the date built from the match of alternative k at position i
DateOfMatch(name, i, k) ==
  LET j == i + Len(MonthAlternatives[k][1])
      y == j + SpaceRun(name, j)
  IN SubSeq(name, y, y + 3) \o "-" \o MonthAlternatives[k][2] \o "-01"

\* the positions of name where the pattern matches
MatchPositions(name, low) ==
  {i \in 1..Len(name) : \E k \in 1..Len(MonthAlternatives) : DateMatchAt(name, low, i, k)}

\* the alternative the regex engine takes at position i: the first that matches
FirstAlternative(name, low, i) ==
  CHOOSE a \in 1..Len(MonthAlternatives) :
    /\ DateMatchAt(name, low, i, a)
    /\ \A b \in 1..(a - 1) : ~DateMatchAt(name, low, i, b)

DateAtPosition(name, low, i) == DateOfMatch(name, i, FirstAlternative(name, low, i))

\* variant: the rightmost position is taken
DateFromPositions_rightmost(name, low, pos) ==
  IF pos = {} THEN ""
  ELSE DateAtPosition(name, low, CHOOSE p \in pos : \A q \in pos : p >= q)

\* _INVOICE_DATE_PATTERN.search(name): leftmost position, first alternative
DateFromPositions(name, low, pos) ==
  IF pos = {} THEN ""
  ELSE DateAtPosition(name, low, CHOOSE p \in pos : \A q \in pos : p <= q)

SearchDate(name, low) == DateFromPositions(name, low, MatchPositions(name, low))

DateOfStem(name) == SearchDate(name, Lower(name))

get_invoice_date_from_filename(filename) ==
  IF filename = "" THEN "" ELSE DateOfStem(PathStem(filename))

(***************************************************************************)
(* Cells                                                                   *)
(***************************************************************************)
NA == [na |-> TRUE, s |-> ""]
Str(t) == [na |-> FALSE, s |-> t]

\* pd.isna(val)
IsNA(val) == val.na

\* _normalize_header
normalize_header(val) == IF IsNA(val) THEN "" ELSE Lower(Strip(val.s))

RECURSIVE StripTrailingNonAlnum(_)
StripTrailingNonAlnum(s) ==
  IF s # "" /\ ~IsAlnum(Ch(s, Len(s)))
  THEN StripTrailingNonAlnum(SubSeq(s, 1, Len(s) - 1))
  ELSE s

\* _normalize_metadata_label
normalize_metadata_label(val) ==
  IF IsNA(val) THEN "" ELSE StripTrailingNonAlnum(Lower(Strip(val.s)))


(***************************************************************************)
(* Grids (pd.read_excel(..., header=None)): a sequence of rows of equal    *)
(* width; the code's row and column indices are 0-based.                   *)
(***************************************************************************)
NumRows(df) == Len(df)
NumCols(df) == IF Len(df) = 0 THEN 0 ELSE Len(df[1])
Cell(df, row_idx, col_idx) == df[row_idx + 1][col_idx + 1]

Range(seq) == {seq[i] : i \in 1..Len(seq)}
Min(a, b) == IF a <= b THEN a ELSE b
EmptyMap == [x \in {} |-> 0]

\* Python's None in a slot that otherwise holds text
None == "<None>"

(***************************************************************************)
(* Amounts: the outcome of float(s) is a finite number (kept in cents),    *)
(* nan, an infinity, or a ValueError.  The grammar covers sign, digits     *)
(* with an optional fraction, and the words nan, inf, infinity in any      *)
(* letter case; exponents and digit-group underscores are not modelled.    *)
(***************************************************************************)
NoAmount == [k |-> "none", c |-> 0]
NanAmount == [k |-> "nan", c |-> 0]
InfAmount(sign) == [k |-> "inf", c |-> sign]
Num(cents) == [k |-> "num", c |-> cents]

AllDigits(s) == \A i \in 1..Len(s) : IsDigit(Ch(s, i))

RECURSIVE NatOf(_)
NatOf(s) ==
  IF s = "" THEN 0
  ELSE 10 * NatOf(SubSeq(s, 1, Len(s) - 1)) + DigitVal[Ch(s, Len(s))]

\* hundredths of the fraction digits (the first two digits; inputs carry no more)
FracCents(f) == NatOf(SubSeq(f \o "00", 1, 2))

\* the unsigned part of a float literal in cents: digits, optionally a dot and
\* digits; -1 when it is no such literal
Magnitude(body, dot) ==
  LET ip == IF dot = 0 THEN body ELSE SubSeq(body, 1, dot - 1)
      fp == IF dot = 0 THEN "" ELSE SubSeq(body, dot + 1, Len(body))
  IN IF AllDigits(ip) /\ AllDigits(fp) /\ (ip # "" \/ fp # "")
     THEN 100 * NatOf(ip) + FracCents(fp) ELSE -1

SignedAmount(sgn, m) == IF m < 0 THEN NoAmount ELSE Num(sgn * m)

\* float of a literal with its sign taken off (word is the literal in lowercase)
FloatOfWord(body, word, sgn) ==
  IF word = "nan" THEN NanAmount
  ELSE IF word \in {"inf", "infinity"} THEN InfAmount(sgn)
  ELSE SignedAmount(sgn, Magnitude(body, IndexOf(".", body)))

FloatOfBody(body, sgn) == FloatOfWord(body, Lower(body), sgn)

FloatOfStripped(t) ==
  IF t # "" /\ Ch(t, 1) \in {"-", "+"}
  THEN FloatOfBody(Tail(t), IF Ch(t, 1) = "-" THEN -1 ELSE 1)
  ELSE FloatOfBody(t, 1)

\* float(s); [k |-> "none"] stands for ValueError
FloatOf(s) == FloatOfStripped(Strip(s))

ParseCleaned(s) == IF s = "" THEN NoAmount ELSE FloatOf(s)

\* _parse_currency
parse_currency(val) ==
  IF IsNA(val) THEN NoAmount ELSE ParseCleaned(Remove(Remove(Strip(val.s), "$"), ","))

(***************************************************************************)
(* TableLocator                                                            *)
(***************************************************************************)
SCAN_FIRST_ROW == 10
SCAN_STOP_ROW == 40

\* target_lower
TargetLower == [i \in 1..Len(TARGET_COLUMNS) |-> Lower(TARGET_COLUMNS[i])]

\* variant: a target is claimed again by every later cell that equals it
ClaimedTarget_overwriting(normalized, col_map) ==
  LET hits == {i \in 1..Len(TARGET_COLUMNS) : normalized = TargetLower[i]}
  IN IF hits = {} THEN 0 ELSE CHOOSE i \in hits : \A j \in hits : i <= j

\* the target whose lowercase name equals the normalized cell and that the
\* column map does not hold yet (0 when there is none)
ClaimedTarget(normalized, col_map) ==
  LET hits == {i \in 1..Len(TARGET_COLUMNS) :
                 /\ normalized = TargetLower[i]
                 /\ TARGET_COLUMNS[i] \notin DOMAIN col_map}
  IN IF hits = {} THEN 0 ELSE CHOOSE i \in hits : \A j \in hits : i <= j

\* col_map after the cell in column col_idx has claimed target i (0: no claim)
Claim(col_map, i, col_idx) ==
  IF i = 0 THEN col_map ELSE (TARGET_COLUMNS[i] :> col_idx) @@ col_map

\* the loops over col_idx and r of _find_header_and_column_map, cell number k
\* of the band in scan order (column by column, and within a column row by row)
RECURSIVE BandColMap(_, _, _, _, _)
BandColMap(df, start_row, n_rows, k, col_map) ==
  IF k >= NumCols(df) * n_rows THEN col_map
  ELSE BandColMap(df, start_row, n_rows, k + 1,
         Claim(col_map,
               IF start_row + (k % n_rows) >= NumRows(df) THEN 0
               ELSE ClaimedTarget(
                      normalize_header(Cell(df, start_row + (k % n_rows), k \div n_rows)),
                      col_map),
               k \div n_rows))

NotFound == [found |-> FALSE, header_start |-> -1, data_start |-> -1, col_map |-> EmptyMap]

\* the start rows of the scan window whose band maps all three targets
AcceptedRows(df, n_rows) ==
  {r \in SCAN_FIRST_ROW..(Min(SCAN_STOP_ROW, NumRows(df) - n_rows + 1) - 1) :
     Cardinality(DOMAIN BandColMap(df, r, n_rows, 0, EmptyMap)) = 3}

FoundAt(df, n_rows, start_row) ==
  [found |-> TRUE, header_start |-> start_row, data_start |-> start_row + n_rows,
   col_map |-> BandColMap(df, start_row, n_rows, 0, EmptyMap)]

\* variant: the last accepted row of the window wins
LastAccepted(df, n_rows, ok) ==
  IF ok = {} THEN NotFound ELSE FoundAt(df, n_rows, CHOOSE r \in ok : \A q \in ok : r >= q)

FirstAccepted(df, n_rows, ok) ==
  IF ok = {} THEN NotFound ELSE FoundAt(df, n_rows, CHOOSE r \in ok : \A q \in ok : r <= q)

\* the loop over start_row for one header row count
FindWithRows(df, n_rows) == FirstAccepted(df, n_rows, AcceptedRows(df, n_rows))

\* variant: an unknown workbook is searched with two header rows first
TryOrder_two_rows_first(invoice_type) ==
  IF invoice_type = INVOICE_TYPE_UNKNOWN THEN <<2, 1>>
  ELSE IF invoice_type = INVOICE_TYPE_PROFESSIONAL THEN <<PROFESSIONAL_HEADER_ROWS>>
  ELSE <<HOSPITAL_HEADER_ROWS>>

TryOrder(invoice_type) ==
  IF invoice_type = INVOICE_TYPE_UNKNOWN THEN <<1, 2>>
  ELSE IF invoice_type = INVOICE_TYPE_PROFESSIONAL THEN <<PROFESSIONAL_HEADER_ROWS>>
  ELSE <<HOSPITAL_HEADER_ROWS>>

RECURSIVE FindInOrder(_, _)
RECURSIVE FoundOrNext(_, _, _)
FoundOrNext(res, df, rest) == IF res.found THEN res ELSE FindInOrder(df, rest)

FindInOrder(df, try_order) ==
  IF try_order = <<>> THEN NotFound
  ELSE FoundOrNext(FindWithRows(df, Head(try_order)), df, Tail(try_order))

\* _find_header_and_column_map
find_header_and_column_map(invoice_type, df) == FindInOrder(df, TryOrder(invoice_type))

HasEndMarker(v) == \E m \in 1..Len(TABLE_END_MARKERS) : Contains(v, TABLE_END_MARKERS[m])

RowHasEndMarker(df, row_idx) ==
  \E c \in 0..(NumCols(df) - 1) :
    ~IsNA(Cell(df, row_idx, c)) /\ HasEndMarker(Upper(Strip(Cell(df, row_idx, c).s)))

RowIsEmpty(df, row_idx) ==
  \A c \in 0..(NumCols(df) - 1) :
    IsNA(Cell(df, row_idx, c)) \/ Strip(Cell(df, row_idx, c).s) = ""

FirstOrLen(df, ends) ==
  IF ends = {} THEN NumRows(df) ELSE CHOOSE r \in ends : \A q \in ends : r <= q

\* variant: only a completely empty row ends the table
find_data_end_row_empty_only(df, data_start_row) ==
  FirstOrLen(df, {r \in data_start_row..(NumRows(df) - 1) : RowIsEmpty(df, r)})

\* _find_data_end_row
find_data_end_row(df, data_start_row) ==
  FirstOrLen(df, {r \in data_start_row..(NumRows(df) - 1) :
                    RowHasEndMarker(df, r) \/ RowIsEmpty(df, r)})

(***************************************************************************)
(* RowExtractor                                                            *)
(***************************************************************************)
\* the values dict of one grid row in extract_table_data
RowValues(df, row_idx, col_map) ==
  [t \in Range(TARGET_COLUMNS) |-> parse_currency(Cell(df, row_idx, col_map[t]))]

\* all_present
AllPresent(values) == \A t \in DOMAIN values : values[t] # NoAmount

KeepIfPresent(values) == IF AllPresent(values) THEN <<values>> ELSE <<>>

RECURSIVE CollectRows(_, _, _, _)
CollectRows(df, row_idx, data_end, col_map) ==
  IF row_idx >= data_end THEN <<>>
  ELSE KeepIfPresent(RowValues(df, row_idx, col_map))
       \o CollectRows(df, row_idx + 1, data_end, col_map)

\* the rows of the table the locator returned
TableAt(df, loc) ==
  IF ~loc.found \/ Cardinality(DOMAIN loc.col_map) # 3 THEN <<>>
  ELSE CollectRows(df, loc.data_start, find_data_end_row(df, loc.data_start), loc.col_map)

\* extract_table_data: the rows of the returned DataFrame
extract_table_data(invoice_type, df) ==
  TableAt(df, find_header_and_column_map(invoice_type, df))

(***************************************************************************)
(* MetadataScanner                                                         *)
(***************************************************************************)
ExpectedFields(invoice_type) ==
  IF invoice_type = INVOICE_TYPE_HOSPITAL THEN METADATA_FIELDS_HOSPITAL
  ELSE IF invoice_type = INVOICE_TYPE_PROFESSIONAL THEN METADATA_FIELDS_PROFESSIONAL
  ELSE METADATA_FIELDS_HOSPITAL \o METADATA_FIELDS_PROFESSIONAL

\* expected_normalized: normalized label -> canonical field
ExpectedNormalized ==
  [t \in {INVOICE_TYPE_HOSPITAL, INVOICE_TYPE_PROFESSIONAL, INVOICE_TYPE_UNKNOWN} |->
     [n \in {normalize_metadata_label(Str(f)) : f \in Range(ExpectedFields(t))} |->
        CHOOSE f \in Range(ExpectedFields(t)) : normalize_metadata_label(Str(f)) = n]]

\* the value stored for a matching row
PairValue(value_val) ==
  IF IsNA(value_val) \/ Strip(value_val.s) = "" THEN "" ELSE Strip(value_val.s)

\* result after a row with normalized label label_norm and value cell value_val
Recorded(result, expected_normalized, label_norm, value_val) ==
  IF label_norm \notin DOMAIN expected_normalized THEN result
  ELSE (expected_normalized[label_norm] :> PairValue(value_val)) @@ result

\* the loop of _extract_metadata_label_value_pairs from row_idx on
RECURSIVE ScanPairs(_, _, _, _, _, _, _)
ScanPairs(df, expected_normalized, row_idx, header_start_row, label_col, value_col, result) ==
  IF row_idx >= header_start_row THEN result
  ELSE IF label_col >= NumCols(df) \/ value_col >= NumCols(df) THEN result
  ELSE ScanPairs(df, expected_normalized, row_idx + 1, header_start_row,
                 label_col, value_col,
                 Recorded(result, expected_normalized,
                          normalize_metadata_label(Cell(df, row_idx, label_col)),
                          Cell(df, row_idx, value_col)))

\* variant: a first-match guard, an earlier matching row is never overwritten
RecordedFirstWins(result, expected_normalized, label_norm, value_val) ==
  IF label_norm \notin DOMAIN expected_normalized THEN result
  ELSE result @@ (expected_normalized[label_norm] :> PairValue(value_val))

RECURSIVE ScanPairsFirstWins(_, _, _, _, _, _, _)
ScanPairsFirstWins(df, expected_normalized, row_idx, header_start_row, label_col, value_col, result) ==
  IF row_idx >= header_start_row THEN result
  ELSE IF label_col >= NumCols(df) \/ value_col >= NumCols(df) THEN result
  ELSE ScanPairsFirstWins(df, expected_normalized, row_idx + 1, header_start_row,
                 label_col, value_col,
                 RecordedFirstWins(result, expected_normalized,
                          normalize_metadata_label(Cell(df, row_idx, label_col)),
                          Cell(df, row_idx, value_col)))

pairs_first_match_wins(invoice_type, df, header_start_row, label_col, value_col) ==
  ScanPairsFirstWins(df, ExpectedNormalized[invoice_type], 0, header_start_row,
                     label_col, value_col, EmptyMap)

\* _extract_metadata_label_value_pairs
extract_metadata_label_value_pairs(invoice_type, df, header_start_row, label_col, value_col) ==
  ScanPairs(df, ExpectedNormalized[invoice_type], 0, header_start_row, label_col,
            value_col, EmptyMap)

\* the fields emitted into the metadata record (found or not found alike)
MetadataFields(invoice_type) ==
  IF invoice_type = INVOICE_TYPE_PROFESSIONAL THEN METADATA_FIELDS_PROFESSIONAL
  ELSE METADATA_FIELDS_HOSPITAL

LabelCol(invoice_type) == IF invoice_type = INVOICE_TYPE_PROFESSIONAL THEN 0 ELSE 1
ValueCol(invoice_type) == IF invoice_type = INVOICE_TYPE_PROFESSIONAL THEN 1 ELSE 2

\* the part of the metadata record that comes from the processor and the clock
BaseMetadata(self, now) ==
  [sheet_name |-> self.current_sheet_name,
   workbook_name |-> self.current_workbook_name,
   invoice_type |-> self.current_invoice_type,
   invoice_date |-> self.current_invoice_date,
   extraction_timestamp |-> now]

\* metadata[field] = pairs.get(field, "") for the fields of the category
FieldsOfPairs(invoice_type, pairs) ==
  [f \in Range(MetadataFields(invoice_type)) |-> IF f \in DOMAIN pairs THEN pairs[f] ELSE ""]

\* the labelled fields of the metadata record, given what the locator returned
LabelledMetadata(invoice_type, df, loc) ==
  IF ~loc.found \/ loc.header_start <= 0
  THEN [f \in Range(MetadataFields(invoice_type)) |-> ""]
  ELSE FieldsOfPairs(invoice_type,
                     extract_metadata_label_value_pairs(invoice_type, df, loc.header_start,
                                                        LabelCol(invoice_type),
                                                        ValueCol(invoice_type)))

\* extract_metadata_from_sheet; self is the processor, now the clock reading
extract_metadata_from_sheet(self, df, now) ==
  LabelledMetadata(self.current_invoice_type, df,
                   find_header_and_column_map(self.current_invoice_type, df))
  @@ BaseMetadata(self, now)

(***************************************************************************)
(* SheetExtractor                                                          *)
(***************************************************************************)
\* all_meta_keys
AllMetaKeys == Range(METADATA_FIELDS_HOSPITAL \o METADATA_FIELDS_PROFESSIONAL)

\* row_dict of the DataFrame row: a NaN read back from the frame becomes None
FrameRow(values) ==
  [t \in DOMAIN values |-> IF values[t].k = "nan" THEN NoAmount ELSE values[t]]

\* variant: a row gets only the metadata fields its sheet's record holds
LineItem_record_fields(self, metadata, row_dict) ==
  row_dict
  @@ [key \in AllMetaKeys \cap DOMAIN metadata |-> metadata[key]]
  @@ [invoice_date |-> self.current_invoice_date,
      _sheet_name |-> self.current_sheet_name,
      _workbook_name |-> self.current_workbook_name,
      _invoice_type |-> self.current_invoice_type]

\* the row as appended to table_rows
LineItem(self, metadata, row_dict) ==
  row_dict
  @@ [key \in AllMetaKeys |-> IF key \in DOMAIN metadata THEN metadata[key] ELSE ""]
  @@ [invoice_date |-> self.current_invoice_date,
      _sheet_name |-> self.current_sheet_name,
      _workbook_name |-> self.current_workbook_name,
      _invoice_type |-> self.current_invoice_type]

\* the row is kept unless all its values are None
KeepRow(self, metadata, row_dict) ==
  IF \E t \in DOMAIN row_dict : row_dict[t] # NoAmount
  THEN <<LineItem(self, metadata, row_dict)>> ELSE <<>>

RECURSIVE TableRows(_, _, _)
TableRows(self, metadata, table) ==
  IF table = <<>> THEN <<>>
  ELSE KeepRow(self, metadata, FrameRow(Head(table))) \o TableRows(self, metadata, Tail(table))

\* the dict extract_sheet_data returns, given the metadata record
SheetDataOf(self, df, metadata) ==
  [metadata |-> metadata,
   table_data |-> TableRows(self, metadata,
                            extract_table_data(self.current_invoice_type, df)),
   raw_row_count |-> NumRows(df)]

\* extract_sheet_data
extract_sheet_data(self, df, now) ==
  SheetDataOf(self, df, extract_metadata_from_sheet(self, df, now))

(***************************************************************************)
(* The processor object                                                    *)
(***************************************************************************)
\* BannerBillingsProcessor.__init__
NewProcessor ==
  [current_sheet_name |-> None, current_workbook_name |-> None,
   current_invoice_type |-> INVOICE_TYPE_UNKNOWN, current_invoice_date |-> ""]

set_sheet_name(self, sheet_name) == [self EXCEPT !.current_sheet_name = sheet_name]

\* variant: the month is only assigned when the name holds one
set_workbook_name_keeping_month(self, workbook_name) ==
  [self EXCEPT !.current_workbook_name = workbook_name,
               !.current_invoice_type = get_invoice_type_from_filename(workbook_name),
               !.current_invoice_date =
                  IF get_invoice_date_from_filename(workbook_name) = "" THEN @
                  ELSE get_invoice_date_from_filename(workbook_name)]

set_workbook_name(self, workbook_name) ==
  [self EXCEPT !.current_workbook_name = workbook_name,
               !.current_invoice_type = get_invoice_type_from_filename(workbook_name),
               !.current_invoice_date = get_invoice_date_from_filename(workbook_name)]

(***************************************************************************)
(* BannerBillingsCombiner                                                  *)
(***************************************************************************)
\* __init__ and the state reset() installs
NewCombiner(now) ==
  [combined_rows |-> <<>>, metadata_records |-> <<>>, source_files |-> <<>>,
   processing_timestamp |-> now]

\* variant: the source-file list survives the reset
reset_keeping_source_files(self, now) ==
  [NewCombiner(now) EXCEPT !.source_files = self.source_files]

reset(self, now) == NewCombiner(now)

\* the metadata dict of sheet_data after add_sheet_data has written the two
\* counts into it (the dict is the caller's own object)
\* variant: the raw row count is read under a key the extraction does not hold
\* and falls back to the default 0
CountedMetadata_default_raw(sheet_data) ==
  [raw_row_count |-> 0,
   extracted_row_count |-> Len(sheet_data.table_data)] @@ sheet_data.metadata

CountedMetadata(sheet_data) ==
  [raw_row_count |-> sheet_data.raw_row_count,
   extracted_row_count |-> Len(sheet_data.table_data)] @@ sheet_data.metadata

WithCounts(sheet_data) == [sheet_data EXCEPT !.metadata = CountedMetadata(sheet_data)]

\* variant: the rows of the new sheet are put in front of the accumulated rows
add_sheet_data_prepending(self, sheet_data) ==
  LET metadata == CountedMetadata(sheet_data)
      workbook_name == metadata["workbook_name"]
  IN [self EXCEPT
        !.metadata_records = Append(@, metadata),
        !.source_files =
           IF workbook_name # None /\ workbook_name # "" /\ workbook_name \notin Range(@)
           THEN Append(@, workbook_name) ELSE @,
        !.combined_rows = sheet_data.table_data \o @]

\* variant: the source file is appended without the membership test
add_sheet_data_always_listing(self, sheet_data) ==
  LET metadata == CountedMetadata(sheet_data)
      workbook_name == metadata["workbook_name"]
  IN [self EXCEPT
        !.metadata_records = Append(@, metadata),
        !.source_files = Append(@, workbook_name),
        !.combined_rows = @ \o sheet_data.table_data]

\* variant: a sheet without line items is not recorded
add_sheet_data_skipping_empty(self, sheet_data) ==
  IF sheet_data.table_data = <<>> THEN self
  ELSE LET metadata == CountedMetadata(sheet_data)
           workbook_name == metadata["workbook_name"]
       IN [self EXCEPT
             !.metadata_records = Append(@, metadata),
             !.source_files =
                IF workbook_name # None /\ workbook_name # "" /\ workbook_name \notin Range(@)
                THEN Append(@, workbook_name) ELSE @,
             !.combined_rows = @ \o sheet_data.table_data]

add_sheet_data(self, sheet_data) ==
  LET metadata == CountedMetadata(sheet_data)
      workbook_name == metadata["workbook_name"]
  IN [self EXCEPT
        !.metadata_records = Append(@, metadata),
        !.source_files =
           IF workbook_name # None /\ workbook_name # "" /\ workbook_name \notin Range(@)
           THEN Append(@, workbook_name) ELSE @,
        !.combined_rows = @ \o sheet_data.table_data]

RECURSIVE add_workbook_data(_, _)
add_workbook_data(self, workbook_data) ==
  IF workbook_data = <<>> THEN self
  ELSE add_workbook_data(add_sheet_data(self, Head(workbook_data)), Tail(workbook_data))

\* get_combined_dataframe: the frame's columns (order of first appearance) and rows;
\* a key absent from a row reads as None
RECURSIVE FrameColumns(_, _)
FrameColumns(rows, cols) ==
  IF rows = <<>> THEN cols
  ELSE FrameColumns(Tail(rows), cols \cup DOMAIN Head(rows))

get_combined_dataframe(self) ==
  LET columns == FrameColumns(self.combined_rows, {})
  IN [columns |-> columns,
      rows |-> [i \in 1..Len(self.combined_rows) |->
                  [c \in columns |->
                     IF c \in DOMAIN self.combined_rows[i] THEN self.combined_rows[i][c]
                     ELSE IF c \in Range(TARGET_COLUMNS) THEN NoAmount ELSE None]]]

\* variant: the sheet total is taken from the source-file list
get_summary_data_counting_files(self) ==
  [processing_timestamp |-> self.processing_timestamp,
   total_source_files |-> Len(self.source_files),
   source_files |-> self.source_files,
   total_sheets_processed |-> Len(self.source_files),
   total_rows_extracted |-> Len(self.combined_rows),
   sheets |->
     [i \in 1..Len(self.metadata_records) |->
        LET metadata == self.metadata_records[i]
            Get(key, default) == IF key \in DOMAIN metadata THEN metadata[key] ELSE default
        IN [workbook |-> Get("workbook_name", "unknown"),
            sheet |-> Get("sheet_name", "unknown"),
            invoice_type |-> Get("invoice_type", "unknown"),
            invoice_date |-> Get("invoice_date", ""),
            raw_rows |-> Get("raw_row_count", 0),
            extracted_rows |-> Get("extracted_row_count", 0)]
           @@ [key \in {"PI", "STUDY NAME", "STUDY CODE", "IRB NO", "KFS NO"} |->
                 Get(key, "")]]]

\* get_summary_data
get_summary_data(self) ==
  [processing_timestamp |-> self.processing_timestamp,
   total_source_files |-> Len(self.source_files),
   source_files |-> self.source_files,
   total_sheets_processed |-> Len(self.metadata_records),
   total_rows_extracted |-> Len(self.combined_rows),
   sheets |->
     [i \in 1..Len(self.metadata_records) |->
        LET metadata == self.metadata_records[i]
            Get(key, default) == IF key \in DOMAIN metadata THEN metadata[key] ELSE default
        IN [workbook |-> Get("workbook_name", "unknown"),
            sheet |-> Get("sheet_name", "unknown"),
            invoice_type |-> Get("invoice_type", "unknown"),
            invoice_date |-> Get("invoice_date", ""),
            raw_rows |-> Get("raw_row_count", 0),
            extracted_rows |-> Get("extracted_row_count", 0)]
           @@ [key \in {"PI", "STUDY NAME", "STUDY CODE", "IRB NO", "KFS NO"} |->
                 Get(key, "")]]]

\* "v is None or str(v).strip() == ''" for the value under key in a row
IsBlankValue(row, key) ==
  IF key \in Range(TARGET_COLUMNS) THEN row[key] = NoAmount
  ELSE row[key] = None \/ Strip(row[key]) = ""

\* validate_combined_data: the list of issues, each [text, count, total]
validate_combined_data(self) ==
  IF self.combined_rows = <<>>
  THEN <<[text |-> "No data extracted from any sheets", count |-> 0, total |-> 0]>>
  ELSE LET rows == self.combined_rows
           all_columns == FrameColumns(rows, {})
           rows_with_missing ==
             Cardinality({i \in 1..Len(rows) :
                            Cardinality(DOMAIN rows[i]) < Cardinality(all_columns)})
           empty_rows ==
             Cardinality({i \in 1..Len(rows) :
                            \A key \in DOMAIN rows[i] : IsBlankValue(rows[i], key)})
       IN (IF rows_with_missing > 0
           THEN <<[text |-> "rows have fewer columns than others",
                   count |-> rows_with_missing, total |-> Cardinality(all_columns)]>>
           ELSE <<>>)
          \o (IF empty_rows > 0
              THEN <<[text |-> "empty rows found in combined data",
                      count |-> empty_rows, total |-> 0]>>
              ELSE <<>>)

(***************************************************************************)
(* BannerBillingsSummarizer.  A frame is [columns, rows]; a summary is     *)
(* [columns, rows] with the display names, its rows in the order groupby   *)
(* gives them (sorted by key).  sum() skips missing amounts.               *)
(***************************************************************************)
COL_STUDY_NAME == "STUDY NAME"
COL_STUDY_CODE == "STUDY CODE"
COL_KFS_NO == "KFS NO"
COL_IRB_NO == "IRB NO"
COL_INVOICE_DATE == "invoice_date"
COL_INVOICE_TYPE == "_invoice_type"

DISPLAY_RENAME ==
  [c \in {COL_STUDY_NAME, COL_STUDY_CODE, COL_KFS_NO, COL_IRB_NO, COL_INVOICE_DATE,
          COL_INVOICE_TYPE} \cup Range(TARGET_COLUMNS) |->
     CASE c = COL_STUDY_NAME -> "Study Name"
       [] c = COL_STUDY_CODE -> "Study Code"
       [] c = COL_KFS_NO -> "KFS No"
       [] c = COL_IRB_NO -> "IRB No"
       [] c = COL_INVOICE_DATE -> "Invoice Date"
       [] c = COL_INVOICE_TYPE -> "Invoice Type"
       [] OTHER -> c]

SUM_COLUMNS == TARGET_COLUMNS

StudyGroupCols ==
  <<COL_STUDY_NAME, COL_STUDY_CODE, COL_KFS_NO, COL_IRB_NO, COL_INVOICE_DATE,
    COL_INVOICE_TYPE>>
AccountGroupCols == <<COL_KFS_NO, COL_INVOICE_TYPE, COL_INVOICE_DATE>>

\* characters in code point order, for the order of str values
CodePointOrder ==
  "\t !#$%&()*+,-./0123456789:;<=>?@ABCDEFGHIJKLMNOPQRSTUVWXYZ[]^_abcdefghijklmnopqrstuvwxyz"
CharRank == [c \in {Ch(CodePointOrder, i) : i \in 1..Len(CodePointOrder)} |->
               IndexOf(c, CodePointOrder)]

RECURSIVE StrLess(_, _)
StrLess(a, b) ==
  IF b = "" THEN FALSE
  ELSE IF a = "" THEN TRUE
  ELSE IF Ch(a, 1) = Ch(b, 1) THEN StrLess(Tail(a), Tail(b))
  ELSE CharRank[Ch(a, 1)] < CharRank[Ch(b, 1)]

RECURSIVE KeyLess(_, _)
KeyLess(k1, k2) ==
  IF k1 = <<>> THEN FALSE
  ELSE IF Head(k1) = Head(k2) THEN KeyLess(Tail(k1), Tail(k2))
  ELSE StrLess(Head(k1), Head(k2))

\* df_work[col].fillna("").astype(str).str.strip() for one value
CoerceKey(v) == IF v = None THEN "" ELSE Strip(v)

\* the group key of a row
GroupKey(row, group_cols) == [i \in 1..Len(group_cols) |-> CoerceKey(row[group_cols[i]])]

\* the keys in sorted order
RECURSIVE SortedKeys(_)
SortedKeys(keys) ==
  IF keys = {} THEN <<>>
  ELSE LET least == CHOOSE k \in keys : \A o \in keys \ {k} : KeyLess(k, o)
       IN <<least>> \o SortedKeys(keys \ {least})

\* the sum of one column over the rows at the indices idx, missing values skipped
RECURSIVE SumCents(_, _, _)
SumCents(rows, idx, col) ==
  IF idx = {} THEN 0
  ELSE LET i == CHOOSE j \in idx : TRUE
       IN (IF rows[i][col].k = "num" THEN rows[i][col].c ELSE 0)
          + SumCents(rows, idx \ {i}, col)

\* variant: a missing value makes the sum of its group not-a-number
ColumnSum_missing_is_nan(rows, idx, col) ==
  IF \E i \in idx : rows[i][col].k # "num" THEN NanAmount
  ELSE Num(SumCents(rows, idx, col))

ColumnSum(rows, idx, col) ==
  LET infs == {rows[i][col].c : i \in {j \in idx : rows[j][col].k = "inf"}}
  IN IF Cardinality(infs) = 2 THEN NanAmount
     ELSE IF Cardinality(infs) = 1 THEN InfAmount(CHOOSE x \in infs : TRUE)
     ELSE Num(SumCents(rows, idx, col))

DisplayCols(group_cols) ==
  [i \in 1..Len(group_cols) |-> DISPLAY_RENAME[group_cols[i]]] \o TARGET_COLUMNS

\* variant: the empty result keeps the internal column names
EmptySummary_internal_names(group_cols) ==
  [columns |-> group_cols \o TARGET_COLUMNS, rows |-> <<>>]

EmptySummary(group_cols) == [columns |-> DisplayCols(group_cols), rows |-> <<>>]

\* variant: the keys are grouped as they are, without fillna and strip
aggregate_raw_keys(df, group_cols) ==
  IF df.rows = <<>> \/ df.columns = {} THEN EmptySummary(group_cols)
  ELSE IF \E c \in Range(group_cols) \cup Range(SUM_COLUMNS) : c \notin df.columns
  THEN EmptySummary(group_cols)
  ELSE LET RawKey(row) == [i \in 1..Len(group_cols) |-> row[group_cols[i]]]
           keys == SortedKeys({RawKey(df.rows[i]) : i \in 1..Len(df.rows)})
       IN [columns |-> DisplayCols(group_cols),
           rows |->
             [g \in 1..Len(keys) |->
                LET idx == {i \in 1..Len(df.rows) : RawKey(df.rows[i]) = keys[g]}
                IN [c \in Range(SUM_COLUMNS) |-> ColumnSum(df.rows, idx, c)]
                   @@ [d \in {DISPLAY_RENAME[group_cols[i]] : i \in 1..Len(group_cols)} |->
                         keys[g][CHOOSE i \in 1..Len(group_cols) :
                                   DISPLAY_RENAME[group_cols[i]] = d]]]]

\* _aggregate
aggregate(df, group_cols) ==
  IF df.rows = <<>> \/ df.columns = {} THEN EmptySummary(group_cols)
  ELSE IF \E c \in Range(group_cols) \cup Range(SUM_COLUMNS) : c \notin df.columns
  THEN EmptySummary(group_cols)
  ELSE LET keys == SortedKeys({GroupKey(df.rows[i], group_cols) : i \in 1..Len(df.rows)})
       IN [columns |-> DisplayCols(group_cols),
           rows |->
             [g \in 1..Len(keys) |->
                LET idx == {i \in 1..Len(df.rows) :
                              GroupKey(df.rows[i], group_cols) = keys[g]}
                IN [c \in Range(SUM_COLUMNS) |-> ColumnSum(df.rows, idx, c)]
                   @@ [d \in {DISPLAY_RENAME[group_cols[i]] : i \in 1..Len(group_cols)} |->
                         keys[g][CHOOSE i \in 1..Len(group_cols) :
                                   DISPLAY_RENAME[group_cols[i]] = d]]]]

get_study_level_summary(df) == aggregate(df, StudyGroupCols)
get_account_level_summary(df) == aggregate(df, AccountGroupCols)

\* get_summaries
get_summaries(df) ==
  [study |-> get_study_level_summary(df), account |-> get_account_level_summary(df)]

(***************************************************************************)
(* ExcelReportGenerator: the sheets of the workbook in the order written,  *)
(* each with the number of data rows written to it                         *)
(***************************************************************************)
\* generate_report that writes both rollup sheets whatever they hold
generate_report_always_four(data_df, summary_data, study_summary_df, account_summary_df) ==
  <<[name |-> "Summary", rows |-> Len(summary_data.sheets)],
    [name |-> "Study Summary", rows |-> Len(study_summary_df.rows)],
    [name |-> "Account Summary", rows |-> Len(account_summary_df.rows)],
    [name |-> "Combined Data",
     rows |-> IF data_df.rows = <<>> THEN 1 ELSE Len(data_df.rows)]>>

\* generate_report
generate_report(data_df, summary_data, study_summary_df, account_summary_df) ==
  <<[name |-> "Summary", rows |-> Len(summary_data.sheets)]>>
  \o (IF study_summary_df.rows # <<>>
      THEN <<[name |-> "Study Summary", rows |-> Len(study_summary_df.rows)]>> ELSE <<>>)
  \o (IF account_summary_df.rows # <<>>
      THEN <<[name |-> "Account Summary", rows |-> Len(account_summary_df.rows)]>>
      ELSE <<>>)
  \o <<[name |-> "Combined Data",
        rows |-> IF data_df.rows = <<>> THEN 1 ELSE Len(data_df.rows)]>>

(***************************************************************************)
(* Bounds and input pools                                                  *)
(***************************************************************************)
MaxDataRows == 2
NumMetaRows == 2
MaxTime == 2
MaxSheets == 2
MaxRecords == 3
MaxSummaryRows == 2
MaxFiles == 2

Times == 1..MaxTime

SeqsUpTo(S, n) == UNION {[1..k -> S] : k \in 0..n}
SeqsOfLen(S, n) == [1..n -> S]

\* grid rows are four cells wide
BlankRow == <<NA, NA, NA, NA>>
TitleRow == <<Str("Banner Health"), NA, Str("Statement"), NA>>

MetaRowPool ==
  { <<NA, Str("KFS NO.:"), Str(" 1234 "), NA>>,
    <<NA, Str("kfs no"), Str("  "), NA>>,
    <<NA, Str("Study Code:"), Str("SC-7"), NA>>,
    <<Str("KFS NO.:"), Str("5678"), NA, NA>>,
    <<Str("KFS No"), NA, NA, NA>>,
    <<Str("STUDY CODE"), Str("PI"), Str("Dr. Ray"), NA>> }

\* header bands of one or two rows
Header1 == << <<Str("Description"), Str("Charge Amount"), Str("Adjustment"), Str("Balance Due")>> >>
Header1Mixed == << <<Str("Item"), Str(" balance due "), Str("ADJUSTMENT"), Str("Charge Amount")>> >>
Header1Dup == << <<Str("Charge Amount"), Str("Charge Amount"), Str("Adjustment"), Str("Balance Due")>> >>
Header1Short == << <<Str("Description"), Str("Charge Amount"), Str("Adjustment"), Str("Balance")>> >>
Header2 ==
  << <<NA, Str("Charge Amount"), NA, Str("Balance Due")>>,
     <<Str("Description"), NA, Str("Adjustment"), NA>> >>
Header2Stacked ==
  << <<Str("CPT"), Str("Charge Amount"), Str("Balance Due"), NA>>,
     <<NA, Str("Adjustment"), NA, NA>> >>
Header2Merged ==
  << <<NA, Str("Charge Amount"), Str("Adjustment"), Str("Balance Due")>>,
     <<NA, Str("Charge Amount"), NA, NA>> >>

HeaderPool ==
  {Header1, Header1Mixed, Header1Dup, Header1Short, Header2, Header2Stacked, Header2Merged}

DataRowPool ==
  { <<Str("Visit 1"), Str("$1,200.00"), Str("0.00"), Str("$1,200.00")>>,
    <<Str("Visit 2"), Str("50"), Str("-5.5"), Str(" 44.50 ")>>,
    <<Str("Visit 3"), Str("$1,200.00"), Str(""), Str("$1,200.00")>>,
    <<Str("Visit 4"), Str("$100.00"), Str("$nan"), Str("$100.00")>>,
    <<Str("Subtotal"), Str("n/a"), NA, Str("12.00")>>,
    <<Str("Total Amount Due:"), Str("10"), Str("0"), Str("10")>>,
    BlankRow }

\* a sheet: title rows, NumMetaRows label rows, gap rows, the header band, the data
GridOf(meta, gap, header, data) ==
  [i \in 1..(SCAN_FIRST_ROW - Len(meta)) |-> TitleRow] \o meta
  \o [i \in 1..gap |-> BlankRow] \o header \o data

DefaultMeta == [i \in 1..NumMetaRows |-> <<NA, Str("KFS NO.:"), Str(" 1234 "), NA>>]
DefaultData == << <<Str("Visit 1"), Str("$1,200.00"), Str("0.00"), Str("$1,200.00")>> >>

\* sheets that vary the label rows above a plain table
MetaGrids ==
  {GridOf(meta, gap, header, DefaultData) :
     meta \in SeqsOfLen(MetaRowPool, NumMetaRows), gap \in {0, 1},
     header \in {Header1, Header2}}

\* sheets that vary the header band and the data rows
TableGrids ==
  {GridOf(DefaultMeta, gap, header, data) :
     gap \in {0, 1}, header \in HeaderPool, data \in SeqsUpTo(DataRowPool, MaxDataRows)}

\* sheets with a second header band below the first one
RepeatedHeaderGrids ==
  {GridOf(DefaultMeta, gap, first, second \o DefaultData) :
     gap \in {0, 1}, first \in {Header1Dup, Header1Mixed, Header2Stacked},
     second \in {Header1, Header2}}

\* a two-row band that holds "Charge Amount" in its first row to the right and
\* in its second row to the left
Header2Cross ==
  << <<NA, Str("Adjustment"), Str("Balance Due"), Str("Charge Amount")>>,
     <<Str("Charge Amount"), NA, NA, NA>> >>

CrossHeaderGrids == {GridOf(DefaultMeta, gap, Header2Cross, DefaultData) : gap \in {0, 1}}

\* sheets with a label row below the header band
LabelBelowGrids ==
  {GridOf(DefaultMeta, 0, header, <<row>> \o DefaultData) :
     header \in {Header1, Header2},
     row \in { <<NA, Str("KFS NO.:"), Str("9999"), NA>>,
               <<Str("KFS NO"), Str("9999"), NA, NA>> }}

\* sheets whose header lies on the last row of the scan window and just below it
TallGrids == {GridOf(DefaultMeta, gap, Header1, DefaultData) : gap \in {29, 30}}

SheetGrids ==
  MetaGrids \cup TableGrids \cup RepeatedHeaderGrids \cup CrossHeaderGrids
    \cup LabelBelowGrids \cup TallGrids

SheetWorkbookNames ==
  {"AZCC May 2025 Banner Hospital Invoices.xlsx",
   "Sept 2025 Professional Bills.xlsx",
   "AZCC Banner Invoices.xlsx"}

GoodGrid ==
  GridOf(DefaultMeta, 1, Header1,
         << <<Str("Visit 1"), Str("$1,200.00"), Str("0.00"), Str("$1,200.00")>>,
            <<Str("Visit 2"), Str("50"), Str("-5.5"), Str(" 44.50 ")>> >>)
UnparsedGrid ==
  GridOf(<< <<NA, Str("Study Name"), Str("Trial B"), NA>>,
            <<NA, Str("KFS NO.:"), Str(" 1234"), NA>> >>, 1, Header1,
         << <<Str("Visit 3"), Str("$1,200.00"), Str(""), Str("$1,200.00")>>,
            <<Str("Visit 5"), Str("7.25"), Str("0"), Str("7.25")>> >>)
EmptyGrid == <<>>

TabPool ==
  { [name |-> "Bill 1", df |-> GoodGrid], [name |-> "Bill 2", df |-> UnparsedGrid],
    [name |-> "Notes", df |-> EmptyGrid] }

\* where a workbook is stored and the workbook_name argument it is processed with
WorkbookCalls ==
  { [path |-> "/tmp/uploads/AZCC May 2025 Banner Hospital Invoices.xlsx", name |-> None],
    [path |-> "/tmp/uploads/3f2a.xlsx", name |-> ""],
    [path |-> "/tmp/uploads/3f2a.xlsx", name |-> "Sept 2025 Professional Bills.xlsx"] }

\* the content of a workbook file: well-formed, or no spreadsheet at all
WorkbookContents ==
  {[ok |-> TRUE, tabs |-> t] : t \in SeqsUpTo(TabPool, MaxSheets)}
  \cup {[ok |-> FALSE, tabs |-> <<>>]}

(***************************************************************************)
(* Workbooks.  A workbook file is [path, ok, tabs]: ok is whether          *)
(* pd.ExcelFile can open and parse it, tabs its sheets in order, each      *)
(* [name, df].                                                             *)
(***************************************************************************)
\* df.empty
IsEmptyFrame(df) == NumRows(df) = 0 \/ NumCols(df) = 0

\* parse_excel_tabs, for a file that opens: the non-empty sheets in order
NonEmptyTab(tab) == ~IsEmptyFrame(tab.df)

parse_excel_tabs(file) == SelectSeq(file.tabs, NonEmptyTab)

\* the sheet loop of process_workbook: the processor after the loop and
\* all_sheet_data
ProcessTabs(self, tabs, now) ==
  [self |-> IF tabs = <<>> THEN self ELSE set_sheet_name(self, tabs[Len(tabs)].name),
   value |-> [i \in 1..Len(tabs) |->
                extract_sheet_data(set_sheet_name(self, tabs[i].name), tabs[i].df, now)]]

\* process_workbook once the workbook name is set
ProcessNamed(named, file, now) ==
  IF ~file.ok THEN [self |-> named, raised |-> TRUE, value |-> <<>>]
  ELSE [raised |-> FALSE] @@ ProcessTabs(named, parse_excel_tabs(file), now)

\* process_workbook that returns no sheets for a file that cannot be opened
process_workbook_skipping_unreadable(self, file, workbook_name, now) ==
  ProcessNamed(set_workbook_name(self, IF workbook_name # None /\ workbook_name # ""
                                       THEN workbook_name ELSE PathName(file.path)),
               [file EXCEPT !.ok = TRUE], now)

\* variant: the workbook is always named after the file it is read from
process_workbook_named_by_path(self, file, workbook_name, now) ==
  ProcessNamed(set_workbook_name(self, PathName(file.path)), file, now)

\* process_workbook(file_path, workbook_name): the processor afterwards, whether
\* the call raised, and the returned list
process_workbook(self, file, workbook_name, now) ==
  ProcessNamed(set_workbook_name(self, IF workbook_name # None /\ workbook_name # ""
                                       THEN workbook_name ELSE PathName(file.path)),
               file, now)

(***************************************************************************)
(* State                                                                   *)
(***************************************************************************)
VARIABLES
  processor,          \* the BannerBillingsProcessor instance
  df,                 \* the sheet grid handed to the extraction functions
  located,            \* what _find_header_and_column_map returned for df
  sheet_data,         \* what extract_sheet_data returned for df
  calls,              \* the functions applied so far to the input the specification drew
  combiner,           \* the BannerBillingsCombiner instance
  workbook_data,      \* the list process_workbook returned last (empty when it raised)
  returned,           \* what the call made last on the combiner returned
  request,            \* the call made last on the processor or the combiner, with
                      \* the category and month the processor held before it
  clock,              \* the next reading of datetime.now()
  pc,                 \* where process_banner_billings stands
  files,              \* the uploads of the request
  saved_files,        \* saved_files of process_banner_billings
  disk,               \* the temporary files that exist
  file_idx,           \* position of the save loop and of the processing loop
  response,           \* what the endpoint returned or raised
  runs,               \* the requests in progress at the same time, each with its own
                      \* locals of process_banner_billings
  combined_df,        \* the combined table
  summary_data,       \* the run summary
  shares_source_files, \* whether summary_data['source_files'] is the very list object
                      \* the combiner appends to
  study_summary_df,   \* the study-level rollup
  account_summary_df, \* the account-level rollup
  report              \* the sheets of the generated workbook

sheetVars == <<df, located, sheet_data, calls>>
apiVars == <<workbook_data, request, returned>>
runVars == <<pc, files, saved_files, disk, file_idx, response, runs>>
reportVars ==
  <<combined_df, summary_data, shares_source_files, study_summary_df, account_summary_df,
    report>>
vars ==
  <<processor, df, located, sheet_data, calls, combiner, workbook_data, request, returned,
    clock,
    pc, files, saved_files, disk, file_idx, response, runs, combined_df, summary_data,
    shares_source_files,
    study_summary_df, account_summary_df, report>>

NoSheetData == [metadata |-> EmptyMap, table_data |-> <<>>, raw_row_count |-> 0]
NoFrame == [columns |-> {}, rows |-> <<>>]
NoSummaryData == get_summary_data(NewCombiner(0))
NoRequest == [op |-> "none", file |-> [path |-> "", ok |-> TRUE, tabs |-> <<>>],
              workbook_name |-> None, raised |-> FALSE, added |-> <<>>,
              before |-> [invoice_type |-> INVOICE_TYPE_UNKNOWN, invoice_date |-> ""]]
NoResponse == [status |-> 0, detail |-> "", filename |-> ""]

\* the variables a specification does not use, at rest
SheetIdle == /\ df = <<>> /\ located = NotFound /\ sheet_data = NoSheetData /\ calls = {}
ApiIdle == /\ workbook_data = <<>> /\ request = NoRequest /\ returned = None
RunIdle ==
  /\ pc = "idle" /\ files = <<>> /\ saved_files = <<>> /\ disk = {} /\ file_idx = 0
  /\ response = NoResponse
  /\ runs = <<>>
ReportIdle ==
  /\ combined_df = NoFrame /\ summary_data = NoSummaryData
  /\ shares_source_files = FALSE
  /\ study_summary_df = NoFrame /\ account_summary_df = NoFrame /\ report = <<>>

(***************************************************************************)
(* SpecSheet: the per-sheet functions applied to one grid by a processor   *)
(* whose workbook and sheet names have been set                            *)
(***************************************************************************)
SheetInit ==
  /\ processor \in {set_sheet_name(set_workbook_name(NewProcessor, w), "Bill 1") :
                      w \in SheetWorkbookNames}
  /\ df \in SheetGrids
  /\ located = NotFound
  /\ sheet_data = NoSheetData
  /\ calls = {}
  /\ combiner = NewCombiner(0)
  /\ clock = 1
  /\ ApiIdle /\ RunIdle /\ ReportIdle

FindHeader ==
  /\ "find_header_and_column_map" \notin calls
  /\ located' = find_header_and_column_map(processor.current_invoice_type, df)
  /\ calls' = calls \cup {"find_header_and_column_map"}
  /\ UNCHANGED <<processor, df, sheet_data, combiner, clock, apiVars, runVars, reportVars>>

ExtractSheet ==
  /\ "extract_sheet_data" \notin calls
  /\ \E now \in Times : sheet_data' = extract_sheet_data(processor, df, now)
  /\ calls' = calls \cup {"extract_sheet_data"}
  /\ UNCHANGED <<processor, df, located, combiner, clock, apiVars, runVars, reportVars>>

SheetNext == FindHeader \/ ExtractSheet

SpecSheet == SheetInit /\ [][SheetNext]_vars

(***************************************************************************)
(* Claims about one sheet (checked under SpecSheet)                        *)
(***************************************************************************)
Located == "find_header_and_column_map" \in calls
Extracted == "extract_sheet_data" \in calls

AmountsOf(row) == [t \in Range(TARGET_COLUMNS) |-> row[t]]

\* a cell parses to a number: not missing, not unparseable, not not-a-number
ParsesToNumber(cell) == parse_currency(cell).k \in {"num", "inf"}

RowParses(grid, row_idx, col_map) ==
  \A t \in Range(TARGET_COLUMNS) : ParsesToNumber(Cell(grid, row_idx, col_map[t]))

\* the amounts of the rows of [from, to) whose three target cells parse, in row order
RECURSIVE ParsedRows(_, _, _, _)
ParsedRows(grid, from, to, col_map) ==
  IF from >= to THEN <<>>
  ELSE (IF RowParses(grid, from, col_map)
        THEN <<[t \in Range(TARGET_COLUMNS) |->
                  parse_currency(Cell(grid, from, col_map[t]))]>>
        ELSE <<>>)
       \o ParsedRows(grid, from + 1, to, col_map)

\* C1 (as claimed): in a sheet whose table is found, the line items are exactly
\* the rows of [data_start_row, data_end_row) whose three target cells all parse
\* to a number, in row order, and no line item has a missing amount.
C1_LineItemIffAllParsed ==
  Extracted =>
    LET loc == find_header_and_column_map(processor.current_invoice_type, df)
    IN /\ loc.found =>
            [i \in 1..Len(sheet_data.table_data) |-> AmountsOf(sheet_data.table_data[i])]
              = ParsedRows(df, loc.data_start,
                           find_data_end_row(df, loc.data_start), loc.col_map)
       /\ \A i \in 1..Len(sheet_data.table_data) :
            \A t \in Range(TARGET_COLUMNS) : sheet_data.table_data[i][t] # NoAmount

\* C8 (as claimed): a found table maps the three target names to three
\* pairwise distinct column indices.
C8_DistinctColumns ==
  (Located /\ located.found) =>
    /\ DOMAIN located.col_map = Range(TARGET_COLUMNS)
    /\ \A a, b \in DOMAIN located.col_map :
         a # b => located.col_map[a] # located.col_map[b]

\* the rows above the header whose label cell (column label_col) normalizes to field f
LabelRows(grid, header_start, label_col, f) ==
  {r \in 0..(header_start - 1) :
     normalize_metadata_label(Cell(grid, r, label_col)) = normalize_metadata_label(Str(f))}

MaxOf(S) == CHOOSE r \in S : \A q \in S : r >= q

TrimmedValue(cell) == IF IsNA(cell) THEN "" ELSE Strip(cell.s)

\* C9 (as claimed): for a workbook of unknown category the metadata record holds
\* all five fields, and a label row in column B naming any of them (STUDY CODE
\* included) has its column C value recorded and copied onto every line item.
C9_UnknownUnionsFieldSets ==
  (Extracted /\ processor.current_invoice_type = INVOICE_TYPE_UNKNOWN) =>
    LET loc == find_header_and_column_map(INVOICE_TYPE_UNKNOWN, df)
    IN \A f \in AllMetaKeys :
         /\ f \in DOMAIN sheet_data.metadata
         /\ (loc.found /\ LabelRows(df, loc.header_start, 1, f) # {}) =>
              /\ sheet_data.metadata[f] =
                   TrimmedValue(Cell(df, MaxOf(LabelRows(df, loc.header_start, 1, f)), 2))
              /\ \A i \in 1..Len(sheet_data.table_data) :
                   sheet_data.table_data[i][f] = sheet_data.metadata[f]

\* C10: when rows above the header band match a metadata field, the recorded
\* value is the trimmed value cell of the last matching row, also when that
\* cell is blank.
C10_LastMatchingRowWins ==
  Extracted =>
    LET ty == processor.current_invoice_type
        loc == find_header_and_column_map(ty, df)
    IN loc.found =>
         \A f \in DOMAIN sheet_data.metadata \cap AllMetaKeys :
           LET rows == LabelRows(df, loc.header_start, LabelCol(ty), f)
           IN sheet_data.metadata[f] =
                IF rows = {} THEN ""
                ELSE TrimmedValue(Cell(df, MaxOf(rows), ValueCol(ty)))

\* C10 witness: two rows match KFS NO, the earlier with a value, the last blank,
\* and the field is emitted blank.
C10_Witness ==
  /\ Extracted
  /\ LET ty == processor.current_invoice_type
         loc == find_header_and_column_map(ty, df)
         rows == LabelRows(df, loc.header_start, LabelCol(ty), "KFS NO")
     IN /\ loc.found
        /\ Cardinality(rows) >= 2
        /\ TrimmedValue(Cell(df, MaxOf(rows), ValueCol(ty))) = ""
        /\ \E r \in rows : TrimmedValue(Cell(df, r, ValueCol(ty))) # ""
        /\ sheet_data.metadata["KFS NO"] = ""

\* C11 (as claimed): when no header band is found, extract_sheet_data returns
\* no line item and a metadata record that holds every expected field of the
\* category (for unknown: of both field sets) as the empty string, together with
\* the sheet name, workbook name, category and month of the processor.
C11_NotFoundBlanksExpectedFields ==
  (Extracted /\ ~find_header_and_column_map(processor.current_invoice_type, df).found) =>
    /\ sheet_data.table_data = <<>>
    /\ \A f \in Range(ExpectedFields(processor.current_invoice_type)) :
         f \in DOMAIN sheet_data.metadata /\ sheet_data.metadata[f] = ""
    /\ sheet_data.metadata.sheet_name = processor.current_sheet_name
    /\ sheet_data.metadata.workbook_name = processor.current_workbook_name
    /\ sheet_data.metadata.invoice_type = processor.current_invoice_type
    /\ sheet_data.metadata.invoice_date = processor.current_invoice_date

\* the per-sheet entry of the run summary after the extraction is added to a
\* new combiner
SummaryEntryOf(extraction) ==
  get_summary_data(add_sheet_data(NewCombiner(0), extraction)).sheets[1]

\* C13: the line items of a sheet are at most raw_row_count, the number of rows
\* of the sheet's grid, and so extracted_rows <= raw_rows in the sheet's entry
\* of the run summary.
C13_ExtractedAtMostRaw ==
  Extracted =>
    /\ sheet_data.raw_row_count = NumRows(df)
    /\ Len(sheet_data.table_data) <= sheet_data.raw_row_count
    /\ SummaryEntryOf(sheet_data).extracted_rows = Len(sheet_data.table_data)
    /\ SummaryEntryOf(sheet_data).raw_rows = NumRows(df)
    /\ SummaryEntryOf(sheet_data).extracted_rows <= SummaryEntryOf(sheet_data).raw_rows

\* C13 witness: a sheet all of whose MaxDataRows data rows are retained, in a
\* grid with more rows than that.
C13_Witness ==
  /\ Extracted
  /\ Len(sheet_data.table_data) = MaxDataRows
  /\ sheet_data.raw_row_count > MaxDataRows
  /\ SummaryEntryOf(sheet_data).extracted_rows = MaxDataRows

\* target t equals, after trim and lowercase, some cell of rows r..r+h-1
TargetInBand(grid, r, h, t) ==
  \E row \in r..(r + h - 1) : \E col \in 0..(NumCols(grid) - 1) :
    /\ row < NumRows(grid)
    /\ ~IsNA(Cell(grid, row, col))
    /\ Lower(Strip(Cell(grid, row, col).s)) = Lower(t)

\* the rows of the scan window (rows 10 to 39 with the whole band inside the
\* sheet) whose band holds all three target names
SatisfyingRows(grid, h) ==
  {r \in 10..39 :
     /\ r + h <= NumRows(grid)
     /\ \A t \in Range(TARGET_COLUMNS) : TargetInBand(grid, r, h, t)}

\* the header row count the search ends with: 1 for hospital, 2 for
\* professional; for unknown 1 when some row satisfies with one row, else 2
HeaderRowsTried(invoice_type, grid) ==
  IF invoice_type = "professional" THEN 2
  ELSE IF invoice_type = "hospital" THEN 1
  ELSE IF SatisfyingRows(grid, 1) # {} THEN 1 ELSE 2

FirstSatisfying(loc, h, rows) ==
  IF rows = {} THEN ~loc.found
  ELSE /\ loc.found
       /\ loc.header_start \in rows
       /\ \A r \in rows : loc.header_start <= r
       /\ loc.data_start = loc.header_start + h

\* C20: for header row count h the search returns the smallest row of the scan
\* window whose band of h rows holds each of the three target names in some
\* cell (after trim and lowercase), with data_start_row = that row + h; it
\* returns not-found exactly when no row of the window satisfies this; a later
\* satisfying row never displaces the first one.
C20_FirstAcceptedRowWins ==
  Located =>
    FirstSatisfying(located, HeaderRowsTried(processor.current_invoice_type, df),
      SatisfyingRows(df, HeaderRowsTried(processor.current_invoice_type, df)))

\* C20 witness: a found table in a sheet where a row below the returned one
\* satisfies the condition too and holds the three names in three columns of
\* its own, which the returned row does not.
C20_Witness ==
  /\ Located
  /\ located.found
  /\ processor.current_invoice_type = "hospital"
  /\ \E r \in SatisfyingRows(df, 1) :
       /\ r > located.header_start
       /\ Cardinality({col \in 0..(NumCols(df) - 1) :
                         normalize_header(Cell(df, r, col)) \in Range(TargetLower)})
            = 3
       /\ Cardinality({col \in 0..(NumCols(df) - 1) :
                         normalize_header(Cell(df, located.header_start, col))
                           \in Range(TargetLower)})
            = 4

\* the band of h rows starting at row r lies inside the sheet and holds all
\* three target names
BandHolds(grid, r, h) ==
  /\ r + h <= NumRows(grid)
  /\ \A t \in Range(TARGET_COLUMNS) : TargetInBand(grid, r, h, t)

\* the header row counts tried for a category
HeaderRowCounts(invoice_type) ==
  IF invoice_type = "professional" THEN {2}
  ELSE IF invoice_type = "hospital" THEN {1}
  ELSE {1, 2}

\* rows 10 through min(40, len(grid) - header_rows), both ends included
StatedWindow(grid, h) ==
  {r \in 0..(NumRows(grid) - 1) : r >= 10 /\ r <= 40 /\ r <= NumRows(grid) - h}

\* C21 as stated: the candidate start rows are exactly rows 10 through
\* min(40, len(grid) - header_rows), both ends included: a band starting at any
\* of them is found, and a band starting outside them is never accepted.
C21_WindowThroughRow40 ==
  Located =>
    /\ located.found <=>
         \E h \in HeaderRowCounts(processor.current_invoice_type) :
           \E r \in StatedWindow(df, h) : BandHolds(df, r, h)
    /\ located.found =>
         located.header_start \in StatedWindow(df, located.data_start - located.header_start)

\* the columns that hold target t in a cell of rows r..r+h-1
ColumnsHolding(grid, r, h, t) ==
  {col \in 0..(NumCols(grid) - 1) :
     \E row \in r..(r + h - 1) :
       /\ row < NumRows(grid)
       /\ ~IsNA(Cell(grid, row, col))
       /\ Lower(Strip(Cell(grid, row, col).s)) = Lower(t)}

\* the cells of rows r..r+h-1 that hold target t
CellsHolding(grid, r, h, t) ==
  {cell \in (r..(r + h - 1)) \X (0..(NumCols(grid) - 1)) :
     /\ cell[1] < NumRows(grid)
     /\ ~IsNA(Cell(grid, cell[1], cell[2]))
     /\ Lower(Strip(Cell(grid, cell[1], cell[2]).s)) = Lower(t)}

\* C23: in a professional sheet with a two-row band each target name is mapped
\* to exactly one column, that of its first matching cell in scan order
\* (column by column, so the leftmost column that holds the name in either
\* row), whatever other cells of the band hold the same name.
C23_FirstMatchingCellWins ==
  (Located /\ located.found /\ processor.current_invoice_type = "professional") =>
    \A t \in Range(TARGET_COLUMNS) :
      /\ t \in DOMAIN located.col_map
      /\ located.col_map[t] \in ColumnsHolding(df, located.header_start, 2, t)
      /\ \A col \in ColumnsHolding(df, located.header_start, 2, t) :
           located.col_map[t] <= col

\* C23 witness: a professional band that holds "Charge Amount" in two columns,
\* in the upper row to the right and in the lower row to the left; the map
\* holds the left column.
C23_Witness ==
  /\ Located /\ located.found /\ processor.current_invoice_type = "professional"
  /\ CellsHolding(df, located.header_start, 2, "Charge Amount")
       = {<<located.header_start, 3>>, <<located.header_start + 1, 0>>}
  /\ located.col_map["Charge Amount"] = 0

\* the number of header rows of a found table
HeaderRowsOf(loc) == loc.data_start - loc.header_start

\* C24: hospital sheets are searched with one header row only, professional
\* sheets with two only; for an unknown workbook the result of the two-row
\* search is returned only when no row of the window matches with one row, so
\* a one-row header anywhere in the window wins over a two-row band that
\* starts higher up.
C24_TwoRowSearchIsFallback ==
  Located =>
    /\ processor.current_invoice_type = "hospital" =>
         /\ located.found <=> SatisfyingRows(df, 1) # {}
         /\ located.found => HeaderRowsOf(located) = 1
    /\ processor.current_invoice_type = "professional" =>
         /\ located.found <=> SatisfyingRows(df, 2) # {}
         /\ located.found => HeaderRowsOf(located) = 2
    /\ processor.current_invoice_type = "unknown" =>
         /\ located.found <=> (SatisfyingRows(df, 1) # {} \/ SatisfyingRows(df, 2) # {})
         /\ located.found =>
              /\ HeaderRowsOf(located) = (IF SatisfyingRows(df, 1) # {} THEN 1 ELSE 2)
              /\ located.header_start \in SatisfyingRows(df, HeaderRowsOf(located))

\* C24 witness: in an unknown workbook a one-row header is returned although
\* a two-row band matches at a row above it.
C24_Witness ==
  /\ Located /\ located.found
  /\ processor.current_invoice_type = "unknown"
  /\ HeaderRowsOf(located) = 1
  /\ \E r \in SatisfyingRows(df, 2) : r < located.header_start

\* the label column of a category: 0 for professional, 1 for hospital and unknown
StatedLabelCol(invoice_type) == IF invoice_type = "professional" THEN 0 ELSE 1

\* the metadata fields of a category (unknown: those of both)
StatedFields(invoice_type) ==
  IF invoice_type = "hospital" THEN {"PI", "STUDY NAME", "IRB NO", "KFS NO"}
  ELSE {"PI", "STUDY NAME", "STUDY CODE", "IRB NO", "KFS NO"}

\* what the rows above the header contribute to field f: the trimmed value
\* cell of the last row whose label cell is f after normalization
ContributedValue(grid, header_start, label_col, rows) ==
  IF rows = {} THEN "" ELSE TrimmedValue(Cell(grid, MaxOf(rows), label_col + 1))

\* the value the record holds for field f (nothing when it has no such field)
FieldValue(meta, f) == IF f \in DOMAIN meta THEN meta[f] ELSE ""

FieldFromRowsAbove(grid, meta, header_start, label_col, f) ==
  FieldValue(meta, f) = ContributedValue(grid, header_start, label_col,
                                         LabelRows(grid, header_start, label_col, f))

\* C25 as stated: a grid row contributes a value to metadata field F exactly
\* when it lies above header_start_row and its cell in the category's label
\* column (1 for hospital and unknown, 0 for professional) is F's name after
\* normalization; the value comes from the column to its right; labels in
\* another column or at or below the header row have no effect.
C25_RowsAboveHeaderInLabelColumn ==
  (Extracted /\ Located /\ located.found) =>
    \A f \in StatedFields(processor.current_invoice_type) :
      FieldFromRowsAbove(df, sheet_data.metadata, located.header_start,
                         StatedLabelCol(processor.current_invoice_type), f)

(***************************************************************************)
(* Spec: a processor and a combiner driven through their methods in any    *)
(* order; process_workbook is given workbooks of at most MaxSheets sheets, *)
(* the combiner at most MaxRecords sheet extractions                       *)
(***************************************************************************)
Advance(t) == IF t < MaxTime THEN t + 1 ELSE t

Init ==
  /\ processor = NewProcessor
  /\ combiner = NewCombiner(0)
  /\ clock = 1
  /\ ApiIdle /\ SheetIdle /\ RunIdle /\ ReportIdle

ProcessWorkbook ==
  \E call \in WorkbookCalls, content \in WorkbookContents :
    \E file \in {[path |-> call.path, ok |-> content.ok, tabs |-> content.tabs]} :
      \E res \in {process_workbook(processor, file, call.name, clock)} :
        /\ processor' = res.self
        /\ workbook_data' = res.value
        /\ request' = [op |-> "process_workbook", file |-> file,
                       workbook_name |-> call.name, raised |-> res.raised,
                       added |-> <<>>,
                       before |-> [invoice_type |-> processor.current_invoice_type,
                                   invoice_date |-> processor.current_invoice_date]]
        /\ clock' = Advance(clock)
        /\ UNCHANGED <<combiner, returned, sheetVars, runVars, reportVars>>

Next == ProcessWorkbook

Spec == Init /\ [][Next]_vars

(***************************************************************************)
(* Claims about process_workbook (checked under Spec)                      *)
(***************************************************************************)
\* the name the workbook of the last call is processed under
RequestedName ==
  IF request.workbook_name \notin {None, ""} THEN request.workbook_name
  ELSE PathName(request.file.path)

\* category and month of the workbook names of the pool, read off the names
CategoryOfName ==
  ("AZCC May 2025 Banner Hospital Invoices.xlsx" :> "hospital")
  @@ ("3f2a.xlsx" :> "unknown")
  @@ ("Sept 2025 Professional Bills.xlsx" :> "professional")

MonthOfName ==
  ("AZCC May 2025 Banner Hospital Invoices.xlsx" :> "2025-05-01")
  @@ ("3f2a.xlsx" :> "")
  @@ ("Sept 2025 Professional Bills.xlsx" :> "2025-09-01")

\* the non-empty sheets of the workbook of the last call, in order
RequestedTabs == SelectSeq(request.file.tabs, NonEmptyTab)

Returned == request.op = "process_workbook" /\ ~request.raised

\* C2: after any sequence of process_workbook calls, the list returned by the
\* last call has one entry per non-empty sheet of that workbook, in order, and
\* every metadata record and every line item in it carries the category and
\* month of that workbook's name, that sheet's name and that workbook's name,
\* whatever the earlier calls were and whatever the sheets contain.
C2_SheetsCarryTheirWorkbook ==
  Returned =>
    /\ Len(workbook_data) = Len(RequestedTabs)
    /\ \A i \in 1..Len(workbook_data) :
         /\ workbook_data[i].metadata["sheet_name"] = RequestedTabs[i].name
         /\ workbook_data[i].metadata["workbook_name"] = RequestedName
         /\ workbook_data[i].metadata["invoice_type"] = CategoryOfName[RequestedName]
         /\ workbook_data[i].metadata["invoice_date"] = MonthOfName[RequestedName]
         /\ \A j \in 1..Len(workbook_data[i].table_data) :
              /\ workbook_data[i].table_data[j]["_sheet_name"] = RequestedTabs[i].name
              /\ workbook_data[i].table_data[j]["_workbook_name"] = RequestedName
              /\ workbook_data[i].table_data[j]["_invoice_type"]
                   = CategoryOfName[RequestedName]
              /\ workbook_data[i].table_data[j]["invoice_date"] = MonthOfName[RequestedName]

\* C2 witness: a workbook of unknown category without a month, with two sheets
\* that have line items, processed by a processor that held the category and
\* month of a professional workbook.
C2_Witness ==
  /\ Returned
  /\ request.before = [invoice_type |-> "professional", invoice_date |-> "2025-09-01"]
  /\ CategoryOfName[RequestedName] = "unknown"
  /\ Len(workbook_data) = 2
  /\ workbook_data[1].metadata["sheet_name"] # workbook_data[2].metadata["sheet_name"]
  /\ \A i \in 1..2 : workbook_data[i].table_data # <<>>

(***************************************************************************)
(* SpecCombiner: a combiner driven through its methods in any order by a   *)
(* caller that holds the sheet extractions of two processed workbooks; at  *)
(* most MaxRecords sheet extractions are added between two resets          *)
(***************************************************************************)
TabNamed(name) == CHOOSE t \in TabPool : t.name = name

\* what one processor returns for a workbook of two sheets and then for a second one
HeldExtractions(call1, call2, tabs2) ==
  process_workbook(NewProcessor,
                   [path |-> call1.path, ok |-> TRUE,
                    tabs |-> <<TabNamed("Bill 1"), TabNamed("Bill 2")>>],
                   call1.name, 1).value
  \o process_workbook(NewProcessor,
                      [path |-> call2.path, ok |-> TRUE, tabs |-> tabs2],
                      call2.name, MaxTime).value

CombinerInit ==
  /\ processor = NewProcessor
  /\ combiner = NewCombiner(1)
  /\ clock = Advance(1)
  /\ workbook_data \in
       {HeldExtractions(call1, call2, tabs2) :
          call1 \in WorkbookCalls, call2 \in WorkbookCalls,
          tabs2 \in {<<TabNamed("Bill 1")>>, <<TabNamed("Notes"), TabNamed("Bill 2")>>}}
  /\ request = NoRequest
  /\ returned = None
  /\ SheetIdle /\ RunIdle /\ ReportIdle

AddSheetData ==
  \E i \in 1..Len(workbook_data) :
    /\ Len(combiner.metadata_records) < MaxRecords
    /\ combiner' = add_sheet_data(combiner, workbook_data[i])
    /\ workbook_data' = [workbook_data EXCEPT ![i] = WithCounts(@)]
    /\ request' = [NoRequest EXCEPT !.op = "add_sheet_data",
                                    !.added = <<workbook_data[i]>>]
    /\ returned' = None
    /\ UNCHANGED <<processor, clock, sheetVars, runVars, reportVars>>

AddWorkbookData ==
  \E from \in 1..(Len(workbook_data) + 1), to \in 0..Len(workbook_data) :
    /\ from <= to + 1
    /\ Len(combiner.metadata_records) + (to - from + 1) <= MaxRecords
    /\ combiner' = add_workbook_data(combiner, SubSeq(workbook_data, from, to))
    /\ workbook_data' = [i \in 1..Len(workbook_data) |->
                           IF from <= i /\ i <= to THEN WithCounts(workbook_data[i])
                           ELSE workbook_data[i]]
    /\ request' = [NoRequest EXCEPT !.op = "add_workbook_data",
                                    !.added = SubSeq(workbook_data, from, to)]
    /\ returned' = None
    /\ UNCHANGED <<processor, clock, sheetVars, runVars, reportVars>>

Reset ==
  /\ combiner' = reset(combiner, clock)
  /\ clock' = Advance(clock)
  /\ request' = [NoRequest EXCEPT !.op = "reset"]
  /\ returned' = None
  /\ UNCHANGED <<processor, workbook_data, sheetVars, runVars, reportVars>>

\* the read-only methods; the Summarizer is given the frame
\* get_combined_dataframe built
GetCombinedDataframe ==
  /\ returned' = get_combined_dataframe(combiner)
  /\ request' = [NoRequest EXCEPT !.op = "get_combined_dataframe"]
  /\ UNCHANGED <<processor, combiner, workbook_data, clock, sheetVars, runVars, reportVars>>

GetSummaryData ==
  /\ returned' = get_summary_data(combiner)
  /\ request' = [NoRequest EXCEPT !.op = "get_summary_data"]
  /\ UNCHANGED <<processor, combiner, workbook_data, clock, sheetVars, runVars, reportVars>>

ValidateCombinedData ==
  /\ returned' = validate_combined_data(combiner)
  /\ request' = [NoRequest EXCEPT !.op = "validate_combined_data"]
  /\ UNCHANGED <<processor, combiner, workbook_data, clock, sheetVars, runVars, reportVars>>

GetSummaries ==
  /\ returned' = get_summaries(get_combined_dataframe(combiner))
  /\ request' = [NoRequest EXCEPT !.op = "get_summaries"]
  /\ UNCHANGED <<processor, combiner, workbook_data, clock, sheetVars, runVars, reportVars>>

CombinerNext ==
  \/ AddSheetData \/ AddWorkbookData \/ Reset
  \/ GetCombinedDataframe \/ GetSummaryData \/ ValidateCombinedData \/ GetSummaries

SpecCombiner == CombinerInit /\ [][CombinerNext]_vars

(***************************************************************************)
(* Claims about the combiner (checked under SpecCombiner)                  *)
(***************************************************************************)
\* the line items of a list of sheet extractions: sheet after sheet, row after row
RECURSIVE LineItemsOf(_)
LineItemsOf(extractions) ==
  IF extractions = <<>> THEN <<>>
  ELSE Head(extractions).table_data \o LineItemsOf(Tail(extractions))

AddOps == {"add_sheet_data", "add_workbook_data"}

\* C3: every add call leaves the accumulated rows as a prefix and appends the
\* line items of the sheets it was given, in sheet order and row order; the
\* queries and the Summarizer leave the accumulated rows as they are.
C3_AppendOnly ==
  [][ /\ request'.op \in AddOps =>
           combiner'.combined_rows = combiner.combined_rows \o LineItemsOf(request'.added)
      /\ request'.op \in {"get_combined_dataframe", "get_summary_data",
                          "validate_combined_data", "get_summaries"} =>
           combiner'.combined_rows = combiner.combined_rows ]_vars

\* C3 witness: add_workbook_data was given two sheets with line items when rows
\* of an earlier add were already accumulated.
C3_Witness ==
  /\ request.op = "add_workbook_data"
  /\ Len(request.added) = 2
  /\ \A i \in 1..2 : request.added[i].table_data # <<>>
  /\ request.added[1].table_data # request.added[2].table_data
  /\ Len(combiner.combined_rows) > Len(LineItemsOf(request.added))

\* the workbook names of the sheet extractions added so far, in add order
AddedWorkbooks ==
  [i \in 1..Len(combiner.metadata_records) |->
     combiner.metadata_records[i]["workbook_name"]]

FirstAdded(name) ==
  CHOOSE i \in 1..Len(AddedWorkbooks) :
    AddedWorkbooks[i] = name /\ \A j \in 1..(i - 1) : AddedWorkbooks[j] # name

\* C4: the source-file list holds no name twice, holds exactly the workbook
\* names of the sheet extractions added, and lists them in the order in which
\* each was first added.
C4_SourceFilesUniqueInFirstAddOrder ==
  /\ \A a, b \in 1..Len(combiner.source_files) :
       a # b => combiner.source_files[a] # combiner.source_files[b]
  /\ Range(combiner.source_files) = Range(AddedWorkbooks)
  /\ \A a, b \in 1..Len(combiner.source_files) :
       a < b => FirstAdded(combiner.source_files[a]) < FirstAdded(combiner.source_files[b])

\* C4 witness: a sheet of a first workbook, a sheet of a second workbook and then
\* another sheet of the first one were added; two names are listed.
C4_Witness ==
  /\ Len(AddedWorkbooks) = 3
  /\ AddedWorkbooks[1] # AddedWorkbooks[2]
  /\ AddedWorkbooks[3] = AddedWorkbooks[1]
  /\ combiner.source_files = <<AddedWorkbooks[1], AddedWorkbooks[2]>>

\* the sum of extracted_rows over the first n per-sheet entries
RECURSIVE ExtractedSum(_, _)
ExtractedSum(sheets, n) ==
  IF n = 0 THEN 0 ELSE ExtractedSum(sheets, n - 1) + sheets[n].extracted_rows

\* the counts of a run summary agree with the combiner and with each other
CountsAgree(summary, self) ==
  /\ summary.total_sheets_processed = Len(summary.sheets)
  /\ summary.total_sheets_processed = Len(self.metadata_records)
  /\ summary.total_rows_extracted = Len(self.combined_rows)
  /\ summary.total_rows_extracted = ExtractedSum(summary.sheets, Len(summary.sheets))
  /\ summary.total_source_files = Len(self.source_files)
  /\ summary.source_files = self.source_files

\* the entries after an add are the entries before it followed by one entry per
\* added extraction, in the order given
EntriesAppended(before, after, added) ==
  /\ after.total_sheets_processed = before.total_sheets_processed + Len(added)
  /\ SubSeq(after.sheets, 1, Len(before.sheets)) = before.sheets
  /\ \A i \in 1..Len(added) :
       LET entry == after.sheets[Len(before.sheets) + i]
       IN /\ entry.workbook = added[i].metadata["workbook_name"]
          /\ entry.sheet = added[i].metadata["sheet_name"]
          /\ entry.extracted_rows = Len(added[i].table_data)
          /\ entry.raw_rows = added[i].raw_row_count

\* C14: after any sequence of add calls the counts of get_summary_data agree
\* with the accumulated state and with each other: total_sheets_processed is
\* the number of sheet extractions added (each add call raises it by the number
\* of extractions it was given) and the number of per-sheet entries, listed in
\* add order; total_rows_extracted is the length of the combined rows and the
\* sum of the per-sheet extracted_rows; total_source_files is the length of the
\* source-file list.
C14_SummaryCountsAgree ==
  /\ [](/\ CountsAgree(get_summary_data(combiner), combiner)
        /\ request.op = "get_summary_data" => returned = get_summary_data(combiner))
  /\ [][request'.op \in AddOps =>
          EntriesAppended(get_summary_data(combiner), get_summary_data(combiner'),
                          request'.added)]_vars

\* C14 witness: get_summary_data is called after three sheet extractions of two
\* workbooks, with different numbers of line items, were added.
C14_Witness ==
  /\ request.op = "get_summary_data"
  /\ returned.total_sheets_processed = 3
  /\ returned.total_source_files = 2
  /\ returned.total_rows_extracted >= 3
  /\ \E i, j \in 1..3 : returned.sheets[i].extracted_rows < returned.sheets[j].extracted_rows

\* the held extraction a metadata record of the log was written from
ExtractionOf(record) ==
  workbook_data[CHOOSE i \in 1..Len(workbook_data) :
                  CountedMetadata(workbook_data[i]) = record]

\* the extractions added since the combiner was created or last reset, in order
AddedSinceReset ==
  [k \in 1..Len(combiner.metadata_records) |-> ExtractionOf(combiner.metadata_records[k])]

\* a newly created combiner given the same add calls
FreshCombiner(now, extractions) == add_workbook_data(NewCombiner(now), extractions)

SameResults(a, b) ==
  /\ get_combined_dataframe(a) = get_combined_dataframe(b)
  /\ get_summary_data(a) = get_summary_data(b)
  /\ validate_combined_data(a) = validate_combined_data(b)

\* the held extractions that were added at some time and are not in the log now
AddedBeforeReset ==
  {i \in 1..Len(workbook_data) :
     /\ "raw_row_count" \in DOMAIN workbook_data[i].metadata
     /\ workbook_data[i].metadata \notin Range(combiner.metadata_records)}

\* C26: after reset() the three lists are empty, and whatever is added
\* afterwards gives the combined table, run summary and validation result of a
\* newly created combiner given the same add calls; nothing added before the
\* reset appears.
C26_ResetEqualsNewCombiner ==
  /\ request.op = "reset" =>
       /\ combiner.combined_rows = <<>>
       /\ combiner.metadata_records = <<>>
       /\ combiner.source_files = <<>>
  /\ SameResults(combiner, FreshCombiner(combiner.processing_timestamp, AddedSinceReset))

\* C26 witness: a combiner that was reset after sheets with line items of one
\* workbook had been added, and has since been given a sheet of another
\* workbook.
C26_Witness ==
  /\ combiner.processing_timestamp > 1
  /\ request.op \in AddOps
  /\ combiner.combined_rows # <<>>
  /\ \E i \in AddedBeforeReset :
       /\ workbook_data[i].table_data # <<>>
       /\ workbook_data[i].metadata["workbook_name"] \notin Range(combiner.source_files)

\* the column set of a line item
ItemColumns ==
  {"Charge Amount", "Adjustment", "Balance Due",
   "PI", "STUDY NAME", "STUDY CODE", "IRB NO", "KFS NO",
   "invoice_date", "_sheet_name", "_workbook_name", "_invoice_type"}

Validated == request.op = "validate_combined_data"

\* C27: every line item the extractor produced has the same twelve columns
\* whatever its category, and validate_combined_data returns the single
\* message "No data extracted from any sheets" when no row is accumulated and
\* the empty list otherwise.
C27_ExtractorOutputValidates ==
  /\ \A i \in 1..Len(workbook_data) : \A j \in 1..Len(workbook_data[i].table_data) :
       DOMAIN workbook_data[i].table_data[j] = ItemColumns
  /\ \A i \in 1..Len(combiner.combined_rows) :
       DOMAIN combiner.combined_rows[i] = ItemColumns
  /\ Validated =>
       IF combiner.combined_rows = <<>>
       THEN /\ Len(returned) = 1
            /\ returned[1].text = "No data extracted from any sheets"
       ELSE returned = <<>>

\* C27 witness: the validation of a combiner that holds line items of a
\* hospital sheet and of a sheet of another category returns the empty list.
C27_Witness ==
  /\ Validated
  /\ returned = <<>>
  /\ \E i, j \in 1..Len(combiner.combined_rows) :
       /\ combiner.combined_rows[i]["_invoice_type"] = "hospital"
       /\ combiner.combined_rows[j]["_invoice_type"] # "hospital"

(***************************************************************************)
(* SpecSummary: the two rollups applied to a combined table of at most     *)
(* MaxSummaryRows line items                                               *)
(***************************************************************************)
SummaryRowPool ==
  {[c \in {"PI", "IRB NO", "STUDY CODE"} |-> ""]
   @@ [invoice_date |-> "2025-05-01", _invoice_type |-> ty,
       _sheet_name |-> "Bill 1", _workbook_name |-> "AZCC May 2025 Banner Hospital Invoices.xlsx"]
   @@ ("KFS NO" :> kfs) @@ ("STUDY NAME" :> study)
   @@ ("Charge Amount" :> amounts[1]) @@ ("Adjustment" :> amounts[2])
   @@ ("Balance Due" :> amounts[3]) :
     kfs \in {"123", " 123 ", None, ""}, study \in {"Trial A", "Trial B"},
     ty \in {INVOICE_TYPE_HOSPITAL},
     amounts \in {<<Num(10000), Num(0), Num(10000)>>,
                  <<Num(20000), NoAmount, Num(19450)>>}}
  \cup
  {[c \in {"PI", "IRB NO", "STUDY CODE", "KFS NO", "STUDY NAME"} |-> None]
   @@ [invoice_date |-> "2025-05-01", _invoice_type |-> INVOICE_TYPE_PROFESSIONAL,
       _sheet_name |-> "Bill 2", _workbook_name |-> "Sept 2025 Professional Bills.xlsx"]
   @@ ("Charge Amount" :> Num(725)) @@ ("Adjustment" :> Num(-550))
   @@ ("Balance Due" :> Num(175))}

AllColumns == DOMAIN (CHOOSE row \in SummaryRowPool : TRUE)

\* the frame of the rows restricted to the columns cols
FrameOf(rows, cols) ==
  IF rows = <<>> THEN NoFrame
  ELSE [columns |-> cols,
        rows |-> [i \in 1..Len(rows) |-> [c \in cols |-> rows[i][c]]]]

\* combined tables as get_combined_dataframe builds them, and tables that lack
\* a column
SummaryFrames ==
  {FrameOf(rows, cols) :
     rows \in SeqsUpTo(SummaryRowPool, MaxSummaryRows),
     cols \in {AllColumns, AllColumns \ {"STUDY CODE"}, AllColumns \ {"Adjustment"},
               AllColumns \ {"KFS NO"}}}

SummaryInit ==
  /\ combined_df \in SummaryFrames
  /\ summary_data = NoSummaryData
  /\ shares_source_files = FALSE
  /\ study_summary_df = NoFrame
  /\ account_summary_df = NoFrame
  /\ report = <<>>
  /\ calls = {}
  /\ df = <<>> /\ located = NotFound /\ sheet_data = NoSheetData
  /\ processor = NewProcessor
  /\ combiner = NewCombiner(0)
  /\ clock = 1
  /\ ApiIdle /\ RunIdle

StudyLevelSummary ==
  /\ "get_study_level_summary" \notin calls
  /\ study_summary_df' = get_study_level_summary(combined_df)
  /\ calls' = calls \cup {"get_study_level_summary"}
  /\ UNCHANGED <<processor, combiner, clock, df, located, sheet_data, apiVars, runVars,
                 combined_df, summary_data, shares_source_files, account_summary_df,
                 report>>

AccountLevelSummary ==
  /\ "get_account_level_summary" \notin calls
  /\ account_summary_df' = get_account_level_summary(combined_df)
  /\ calls' = calls \cup {"get_account_level_summary"}
  /\ UNCHANGED <<processor, combiner, clock, df, located, sheet_data, apiVars, runVars,
                 combined_df, summary_data, shares_source_files, study_summary_df,
                 report>>

SummaryNext == StudyLevelSummary \/ AccountLevelSummary

SpecSummary == SummaryInit /\ [][SummaryNext]_vars

(***************************************************************************)
(* Claims about the rollups (checked under SpecSummary)                    *)
(***************************************************************************)
\* a key value as the claim compares it: null is the empty string, text is trimmed
TrimmedKey(v) == IF v = None THEN "" ELSE Strip(v)

KeyTuple(row, group_cols) == [i \in 1..Len(group_cols) |-> TrimmedKey(row[group_cols[i]])]

\* the sum of column col over the first n rows of the table that have key tuple key
RECURSIVE TotalOf(_, _, _, _, _)
TotalOf(rows, n, group_cols, key, col) ==
  IF n = 0 THEN 0
  ELSE TotalOf(rows, n - 1, group_cols, key, col)
       + (IF KeyTuple(rows[n], group_cols) = key /\ rows[n][col].k = "num"
          THEN rows[n][col].c ELSE 0)

HasColumns(frame, group_cols) ==
  frame.rows # <<>> /\ Range(group_cols) \cup Range(TARGET_COLUMNS) \subseteq frame.columns

\* the key tuple a summary row shows
ShownKey(summary_row, group_cols) ==
  [i \in 1..Len(group_cols) |-> summary_row[DISPLAY_RENAME[group_cols[i]]]]

\* the summary has one row per key tuple of the table, with the three sums
IsRollup(summary, frame, group_cols) ==
  LET keys == {KeyTuple(frame.rows[i], group_cols) : i \in 1..Len(frame.rows)}
  IN /\ Len(summary.rows) = Cardinality(keys)
     /\ \A key \in keys :
          \E i \in 1..Len(summary.rows) :
            /\ ShownKey(summary.rows[i], group_cols) = key
            /\ \A col \in Range(TARGET_COLUMNS) :
                 summary.rows[i][col]
                   = Num(TotalOf(frame.rows, Len(frame.rows), group_cols, key, col))

\* C5: each rollup of a combined table has exactly one row per distinct key
\* tuple (keys compared as trimmed strings, null as the empty string), and each
\* amount of that row is the sum of that amount over the line items with that
\* key tuple.
C5_OneRowPerKeyWithSums ==
  /\ ("get_study_level_summary" \in calls /\ HasColumns(combined_df, StudyGroupCols))
       => IsRollup(study_summary_df, combined_df, StudyGroupCols)
  /\ ("get_account_level_summary" \in calls /\ HasColumns(combined_df, AccountGroupCols))
       => IsRollup(account_summary_df, combined_df, AccountGroupCols)

\* C5 witness: two line items that differ on KFS No only by null against the
\* empty string share one account-level row that holds the sum of their charges.
C5_Witness ==
  /\ "get_account_level_summary" \in calls
  /\ HasColumns(combined_df, AccountGroupCols)
  /\ Len(combined_df.rows) = 2
  /\ {combined_df.rows[1]["KFS NO"], combined_df.rows[2]["KFS NO"]} = {None, ""}
  /\ Len(account_summary_df.rows) = 1
  /\ account_summary_df.rows[1]["Charge Amount"]
       = Num(combined_df.rows[1]["Charge Amount"].c + combined_df.rows[2]["Charge Amount"].c)

StudyDisplayColumns ==
  <<"Study Name", "Study Code", "KFS No", "IRB No", "Invoice Date", "Invoice Type",
    "Charge Amount", "Adjustment", "Balance Due">>
AccountDisplayColumns ==
  <<"KFS No", "Invoice Type", "Invoice Date", "Charge Amount", "Adjustment", "Balance Due">>

\* C15: a rollup of a combined table that is empty or lacks one of the rollup's
\* grouping columns or one of the three amount columns has zero rows, and its
\* columns are the rollup's display-named key columns followed by Charge Amount,
\* Adjustment, Balance Due.
C15_EmptyShapedResult ==
  /\ ("get_study_level_summary" \in calls /\ ~HasColumns(combined_df, StudyGroupCols))
       => /\ study_summary_df.rows = <<>>
          /\ study_summary_df.columns = StudyDisplayColumns
  /\ ("get_account_level_summary" \in calls /\ ~HasColumns(combined_df, AccountGroupCols))
       => /\ account_summary_df.rows = <<>>
          /\ account_summary_df.columns = AccountDisplayColumns

\* C15 witness: a table with line items but without the STUDY CODE column has an
\* empty study-level rollup and a non-empty account-level rollup.
C15_Witness ==
  /\ calls = {"get_study_level_summary", "get_account_level_summary"}
  /\ combined_df.rows # <<>>
  /\ "STUDY CODE" \notin combined_df.columns
  /\ study_summary_df = [columns |-> StudyDisplayColumns, rows |-> <<>>]
  /\ account_summary_df.rows # <<>>

\* the cents an amount adds to a sum (a missing amount adds nothing)
CentsOf(amount) == IF amount.k = "num" THEN amount.c ELSE 0

RECURSIVE SumOfColumn(_, _)
SumOfColumn(rows, col) ==
  IF rows = <<>> THEN 0 ELSE CentsOf(Head(rows)[col]) + SumOfColumn(Tail(rows), col)

\* the account key a summary row shows
AccountKeyOf(summary_row) ==
  <<summary_row["KFS No"], summary_row["Invoice Type"], summary_row["Invoice Date"]>>

\* the study-level rows that fall under an account-level row
StudyRowsUnder(study_rows, account_row) ==
  SelectSeq(study_rows, LAMBDA s : AccountKeyOf(s) = AccountKeyOf(account_row))

BothRollupsMade ==
  /\ calls = {"get_study_level_summary", "get_account_level_summary"}
  /\ HasColumns(combined_df, StudyGroupCols)

Coarsens(account_rows, study_rows) ==
  /\ {AccountKeyOf(account_rows[i]) : i \in 1..Len(account_rows)}
       = {AccountKeyOf(study_rows[i]) : i \in 1..Len(study_rows)}
  /\ \A i, j \in 1..Len(account_rows) :
       AccountKeyOf(account_rows[i]) = AccountKeyOf(account_rows[j]) => i = j
  /\ \A i \in 1..Len(account_rows) : \A col \in Range(TARGET_COLUMNS) :
       /\ account_rows[i][col].k = "num"
       /\ account_rows[i][col].c
            = SumOfColumn(StudyRowsUnder(study_rows, account_rows[i]), col)

CoverGrid == [i \in 1..(SCAN_FIRST_ROW + 2) |-> TitleRow]

\* an upload: its filename and what the stored bytes hold
UploadPool ==
  { [filename |-> "AZCC May 2025 Banner Hospital Invoices.xlsx", ok |-> TRUE,
     tabs |-> <<[name |-> "Bill 1", df |-> GoodGrid]>>],
    [filename |-> "Sept 2025 Professional Bills.XLSX", ok |-> TRUE,
     tabs |-> <<[name |-> "Bill 2", df |-> UnparsedGrid], [name |-> "Cover", df |-> CoverGrid]>>],
    [filename |-> "May 2025 Hospital scan.xlsx", ok |-> FALSE, tabs |-> <<>>],
    [filename |-> "Empty.xls", ok |-> TRUE,
     tabs |-> <<[name |-> "Cover", df |-> CoverGrid], [name |-> "Notes", df |-> EmptyGrid]>>],
    [filename |-> "notes.csv", ok |-> TRUE, tabs |-> <<>>],
    [filename |-> "", ok |-> TRUE, tabs |-> <<>>] }

TEMP_DIR == "/home/app/data/tmp"

\* str(uuid.uuid4()) of the n-th file saved
FileId(n) == "3f2a9c41-" \o Ch(Digits, n + 1)

\* s.split(".")[-1]
LastDotPart(s) == SubSeq(s, LastIndexOf(".", s) + 1, Len(s))

file_extension(filename) == LastDotPart(Lower(filename))

\* the validation loop: the position of the first upload it rejects, 0 when none
HasBadName(upload) ==
  upload.filename = "" \/ file_extension(upload.filename) \notin {"xlsx", "xls"}

FirstRejected(uploads) ==
  LET bad == {i \in 1..Len(uploads) : HasBadName(uploads[i])}
  IN IF bad = {} THEN 0 ELSE CHOOSE i \in bad : \A j \in bad : i <= j

RejectionOf(upload) ==
  IF upload.filename = "" THEN "All files must have filenames"
  ELSE "Unsupported file type: " \o file_extension(upload.filename) \o " in "
       \o upload.filename \o ". Only Excel files (.xlsx, .xls) are supported."

\* datetime.now().strftime("%Y%m%d_%H%M%S")
Timestamp(now) == "20250601_12000" \o Ch(Digits, now + 1)

generate_filename(prefix, now) == prefix \o "_report_" \o Timestamp(now) \o ".xlsx"

HTTPException(code, text) == [status |-> code, detail |-> text, filename |-> ""]

RunInit ==
  /\ files \in SeqsUpTo(UploadPool, MaxFiles)
  /\ pc = "start"
  /\ saved_files = <<>>
  /\ disk = {}
  /\ file_idx = 0
  /\ response = NoResponse
  /\ runs = <<>>
  /\ processor = NewProcessor
  /\ combiner = NewCombiner(0)
  /\ clock = 1
  /\ ApiIdle /\ SheetIdle /\ ReportIdle

\* lines 60-84: the checks before the try block
Validate ==
  /\ pc = "start"
  /\ IF files = <<>>
     THEN /\ response' = HTTPException(400, "At least one file is required")
          /\ pc' = "done"
          /\ UNCHANGED file_idx
     ELSE IF FirstRejected(files) # 0
     THEN /\ response' = HTTPException(400, RejectionOf(files[FirstRejected(files)]))
          /\ pc' = "done"
          /\ UNCHANGED file_idx
     ELSE /\ pc' = "save"
          /\ file_idx' = 1
          /\ UNCHANGED response
  /\ UNCHANGED <<processor, combiner, clock, files, saved_files, disk, apiVars, sheetVars, runs,
                 reportVars>>

\* the wrapping of an exception that is not an HTTPException (lines 173-178)
InternalError(text) == HTTPException(500, "Error processing files: " \o text)

\* one pass of the save loop (lines 92-102); reading the upload, opening the
\* temporary file and writing it can each raise
SaveFile ==
  /\ pc = "save"
  /\ \E outcome \in {"saved", "read raises", "open raises", "write raises"} :
       \E saved_path \in {TEMP_DIR \o "/" \o FileId(file_idx)
                            \o PathSuffix(files[file_idx].filename)} :
         /\ disk' = IF outcome \in {"saved", "write raises"}
                    THEN disk \cup {saved_path} ELSE disk
         /\ IF outcome = "saved"
            THEN /\ saved_files' = Append(saved_files, saved_path)
                 /\ pc' = IF file_idx = Len(files) THEN "create" ELSE "save"
                 /\ file_idx' = file_idx + 1
                 /\ UNCHANGED response
            ELSE /\ response' = InternalError(outcome)
                 /\ pc' = "cleanup"
                 /\ UNCHANGED <<saved_files, file_idx>>
  /\ UNCHANGED <<processor, combiner, clock, files, apiVars, sheetVars, runs, reportVars>>

\* lines 104-106
CreateWorkers ==
  /\ pc = "create"
  /\ processor' = NewProcessor
  /\ combiner' = NewCombiner(clock)
  /\ clock' = Advance(clock)
  /\ pc' = "process"
  /\ file_idx' = 1
  /\ UNCHANGED <<files, saved_files, disk, response, apiVars, sheetVars, runs, reportVars>>

\* one pass of the processing loop (lines 109-127); the detail of the error is
\* kept up to the text of the exception
ProcessOne ==
  /\ pc = "process"
  /\ \E file \in {[path |-> saved_files[file_idx], ok |-> files[file_idx].ok,
                   tabs |-> files[file_idx].tabs]} :
       \E res \in {process_workbook(processor, file, files[file_idx].filename, clock)} :
         /\ processor' = res.self
         /\ workbook_data' = res.value
         /\ request' = [op |-> "process_workbook", file |-> file,
                        workbook_name |-> files[file_idx].filename, raised |-> res.raised,
                        added |-> res.value,
                        before |-> [invoice_type |-> processor.current_invoice_type,
                                    invoice_date |-> processor.current_invoice_date]]
         /\ IF res.raised
            THEN /\ response' = HTTPException(400, "Error processing file '"
                                                   \o files[file_idx].filename \o "'")
                 /\ pc' = "cleanup"
                 /\ UNCHANGED <<combiner, file_idx>>
            ELSE /\ combiner' = add_workbook_data(combiner, res.value)
                 /\ pc' = IF file_idx = Len(saved_files) THEN "report" ELSE "process"
                 /\ file_idx' = file_idx + 1
                 /\ UNCHANGED response
  /\ clock' = Advance(clock)
  /\ UNCHANGED <<files, saved_files, disk, returned, sheetVars, runs, reportVars>>

\* lines 129-169: validation warnings, combined table, summaries, report,
\* response
BuildReport ==
  /\ pc = "report"
  /\ returned' = validate_combined_data(combiner)
  /\ \E frame \in {get_combined_dataframe(combiner)} :
       \E summaries \in {get_summaries(frame)} :
         /\ combined_df' = frame
         /\ summary_data' = get_summary_data(combiner)
         /\ shares_source_files' = TRUE
         /\ study_summary_df' = summaries.study
         /\ account_summary_df' = summaries.account
         /\ report' = generate_report(frame, get_summary_data(combiner),
                                      summaries.study, summaries.account)
  /\ response' = [status |-> 200, detail |-> "",
                  filename |-> generate_filename("banner_billings", clock)]
  /\ clock' = Advance(clock)
  /\ pc' = "cleanup"
  /\ UNCHANGED <<processor, combiner, files, saved_files, disk, file_idx, workbook_data,
                 request, sheetVars, runs>>

\* the finally block (lines 179-184)
Cleanup ==
  /\ pc = "cleanup"
  /\ disk' = disk \ Range(saved_files)
  /\ pc' = "done"
  /\ UNCHANGED <<processor, combiner, clock, files, saved_files, file_idx, response,
                 apiVars, sheetVars, runs, reportVars>>

RunNext == Validate \/ SaveFile \/ CreateWorkers \/ ProcessOne \/ BuildReport \/ Cleanup

SpecRun == RunInit /\ [][RunNext]_vars

(***************************************************************************)
(* Claims about a run (checked under SpecRun)                              *)
(***************************************************************************)
SheetNames == [i \in 1..Len(report) |-> report[i].name]

ReportReturned == response.status = 200

\* C6 as stated: every report has exactly the four sheets Summary, Study
\* Summary, Account Summary, Combined Data in this order, also when the run
\* extracted no line item.
C6_AlwaysFourSheets ==
  ReportReturned
    => SheetNames = <<"Summary", "Study Summary", "Account Summary", "Combined Data">>

\* C6 amended: a report of a run that extracted at least one line item has
\* exactly the four sheets Summary, Study Summary, Account Summary, Combined
\* Data in this order; a report of a run that extracted no line item has exactly
\* the two sheets Summary, Combined Data.
C6_FourSheetsWhenLineItems ==
  ReportReturned
    => SheetNames = IF combiner.combined_rows # <<>>
                    THEN <<"Summary", "Study Summary", "Account Summary", "Combined Data">>
                    ELSE <<"Summary", "Combined Data">>

\* C6 witness: a run over one workbook whose only sheet has no table returns a
\* report with the Summary and Combined Data sheets alone.
C6_Witness ==
  /\ pc = "done" /\ ReportReturned
  /\ Len(files) = 1 /\ files[1].filename = "Empty.xls"
  /\ combiner.combined_rows = <<>>
  /\ Len(combiner.metadata_records) = 1
  /\ SheetNames = <<"Summary", "Combined Data">>

Rejected == files = <<>> \/ FirstRejected(files) # 0
Stored == Len(saved_files) = Len(files)
Malformed == {i \in 1..Len(files) : ~files[i].ok}
FirstMalformed == CHOOSE i \in Malformed : \A j \in Malformed : i <= j

\* the sheets parse_excel_tabs yields for the first n uploads
RECURSIVE SheetsBefore(_)
SheetsBefore(n) ==
  IF n = 0 THEN 0 ELSE SheetsBefore(n - 1) + Len(parse_excel_tabs(files[n]))

\* C7 as stated: a finished run has failed only if one of its workbooks cannot
\* be opened or parsed as a spreadsheet.
C7_FailsOnlyOnMalformedWorkbook ==
  (pc = "done" /\ ~ReportReturned) => Malformed # {}

\* C7 amended: sheets without a table and rows whose amounts do not parse never
\* make the run fail.  A finished run has failed without a report only if the
\* request was rejected at validation (no file, a file without a name, an
\* extension other than xlsx/xls), an upload could not be read or stored, or a
\* workbook cannot be opened or parsed as a spreadsheet; otherwise it returned a
\* report over all its workbooks.  When the uploads are accepted and stored and
\* a workbook cannot be opened, the error naming the first such workbook is
\* returned, only the workbooks before it were combined and no later workbook
\* is processed.
C7_FailureCauses ==
  /\ [](pc = "done" =>
          /\ ReportReturned <=> (~Rejected /\ Stored /\ Malformed = {})
          /\ ReportReturned =>
               /\ report # <<>>
               /\ Len(combiner.metadata_records) = SheetsBefore(Len(files))
          /\ (~Rejected /\ Stored /\ Malformed # {}) =>
               /\ response = HTTPException(400, "Error processing file '"
                                                \o files[FirstMalformed].filename \o "'")
               /\ file_idx = FirstMalformed
               /\ processor.current_workbook_name = files[FirstMalformed].filename
               /\ Len(combiner.metadata_records) = SheetsBefore(FirstMalformed - 1)
               /\ report = <<>>)
  /\ [][response.status # 0 /\ ~ReportReturned =>
          /\ processor' = processor /\ combiner' = combiner /\ report' = report
          /\ response' = response]_vars

\* C7 witness: a run over a workbook with a row that does not parse and a
\* sheet without a table, followed by a good workbook, returns a report.
C7_Witness ==
  /\ pc = "done" /\ ReportReturned
  /\ Len(files) = 2
  /\ files[1].filename = "Sept 2025 Professional Bills.XLSX"
  /\ files[2].filename = "AZCC May 2025 Banner Hospital Invoices.xlsx"
  /\ Len(combiner.metadata_records) = 3
  /\ \E i \in 1..3 : combiner.metadata_records[i].extracted_row_count = 0
  /\ \E i \in 1..3 :
       combiner.metadata_records[i].extracted_row_count
         < combiner.metadata_records[i].raw_row_count
  /\ Len(report) = 4

\* the sheets of the first n uploads, empty ones included
RECURSIVE AllSheetsBefore(_)
AllSheetsBefore(n) == IF n = 0 THEN 0 ELSE AllSheetsBefore(n - 1) + Len(files[n].tabs)

BadUpload(file) ==
  \/ file.filename = ""
  \/ /\ SubSeq(Lower(file.filename), Len(file.filename) - 4, Len(file.filename)) # ".xlsx"
     /\ SubSeq(Lower(file.filename), Len(file.filename) - 3, Len(file.filename)) # ".xls"

HasBadUpload == \E i \in 1..Len(files) : BadUpload(files[i])

\* C30 as stated: when the call has finished, on whatever path, no temporary
\* file of the run is left on disk; and a request with an upload that has no
\* name or an extension other than xlsx/xls is rejected before any temporary
\* file is created or any workbook is processed.
C30_TempFilesGoneOnEveryPath ==
  /\ pc = "done" => disk = {}
  /\ HasBadUpload =>
       /\ disk = {} /\ saved_files = <<>>
       /\ request.op # "process_workbook"
       /\ pc \in {"start", "done"}
       /\ pc = "done" => response.status = 400

(***************************************************************************)
(* SpecRuns: two requests to process_banner_billings in progress on one    *)
(* event loop.  A coroutine is suspended only at "await file.read()" in    *)
(* the save loop, so a request takes one step up to its first await and    *)
(* one step from each await to the next await or to its return.            *)
(***************************************************************************)
RunIds == {"a", "b"}

ConcurrentUploads ==
  {u \in UploadPool : u.filename \in {"AZCC May 2025 Banner Hospital Invoices.xlsx",
                                      "Sept 2025 Professional Bills.XLSX",
                                      "May 2025 Hospital scan.xlsx"}}

\* the requests: at most MaxFiles different uploads each
ConcurrentRequests ==
  {uploads \in SeqsUpTo(ConcurrentUploads, MaxFiles) :
     \A i, j \in 1..Len(uploads) : i # j => uploads[i] # uploads[j]}

\* the locals of a request that has not run yet
NewRun(uploads) ==
  [pc |-> "start", files |-> uploads, saved_files |-> <<>>, file_idx |-> 0,
   response |-> NoResponse, processor |-> NewProcessor, combiner |-> NewCombiner(0),
   combined_df |-> NoFrame, summary_data |-> NoSummaryData,
   study_summary_df |-> NoFrame, account_summary_df |-> NoFrame, report |-> <<>>]

\* uuid4 values are distinct across requests
FileIdOfRun(r, n) == FileId((IF r = "a" THEN 0 ELSE MaxFiles + 1) + n)

\* variant: the accumulator lists are shared between requests, a request goes
\* on with what a finished request accumulated
CombinerSharedBetweenRuns(rs, r, now) ==
  LET finished == {o \in RunIds \ {r} :
                     rs[o].pc = "done" /\ rs[o].combiner.metadata_records # <<>>}
  IN IF finished = {} THEN NewCombiner(now)
     ELSE rs[CHOOSE o \in finished : TRUE].combiner

\* combiner = BannerBillingsCombiner() (line 106): a new object per request
CombinerOfRun(rs, r, now) == NewCombiner(now)

\* the processing loop (lines 109-127) from workbook i on: the processor and
\* combiner afterwards and the position of the workbook that raised, 0 when none
RECURSIVE ProcessFrom(_, _, _, _, _, _)
RECURSIVE ProcessNext(_, _, _, _, _, _)
ProcessFrom(proc, comb, uploads, paths, i, now) ==
  IF i > Len(paths) THEN [processor |-> proc, combiner |-> comb, failed |-> 0]
  ELSE ProcessNext(process_workbook(proc, [path |-> paths[i], ok |-> uploads[i].ok,
                                           tabs |-> uploads[i].tabs],
                                    uploads[i].filename, now),
                   comb, uploads, paths, i, now)
ProcessNext(res, comb, uploads, paths, i, now) ==
  IF res.raised THEN [processor |-> res.self, combiner |-> comb, failed |-> i]
  ELSE ProcessFrom(res.self, add_workbook_data(comb, res.value), uploads, paths, i + 1, now)

\* lines 129-169 for a combiner: the tables, the report and the response
ReportedBy(comb, frame, summaries, now) ==
  [combined_df |-> frame, summary_data |-> get_summary_data(comb),
   study_summary_df |-> summaries.study, account_summary_df |-> summaries.account,
   report |-> generate_report(frame, get_summary_data(comb), summaries.study,
                              summaries.account),
   response |-> [status |-> 200, detail |-> "",
                 filename |-> generate_filename("banner_billings", now)]]

ReportedFrame(comb, frame, now) == ReportedBy(comb, frame, get_summaries(frame), now)

\* the request after its processing loop ran: failed with a 400 or reported
AfterProcessing(run, worked, now) ==
  IF worked.failed # 0
  THEN [run EXCEPT !.processor = worked.processor, !.combiner = worked.combiner,
                   !.file_idx = worked.failed,
                   !.response = HTTPException(400, "Error processing file '"
                                   \o run.files[worked.failed].filename \o "'"),
                   !.pc = "done"]
  ELSE [pc |-> "done", files |-> run.files, saved_files |-> run.saved_files,
        file_idx |-> Len(run.saved_files) + 1,
        processor |-> worked.processor, combiner |-> worked.combiner]
       @@ ReportedFrame(worked.combiner, get_combined_dataframe(worked.combiner), now)

\* lines 104-184 of a request whose uploads are all saved, up to its return
RunToReturn(rs, r, run, now) ==
  AfterProcessing(run,
                  ProcessFrom(NewProcessor, CombinerOfRun(rs, r, now), run.files,
                              run.saved_files, 1, now),
                  now)

RunsInit ==
  /\ runs \in [RunIds -> {NewRun(uploads) : uploads \in ConcurrentRequests}]
  /\ disk = {}
  /\ clock = 1
  /\ pc = "idle" /\ files = <<>> /\ saved_files = <<>> /\ file_idx = 0
  /\ response = NoResponse
  /\ processor = NewProcessor
  /\ combiner = NewCombiner(0)
  /\ ApiIdle /\ SheetIdle /\ ReportIdle

\* a request from its call to its first await (lines 60-97), or to its
\* rejection
Begin(r) ==
  /\ runs[r].pc = "start"
  /\ runs' = [runs EXCEPT ![r] =
                IF runs[r].files = <<>>
                THEN [@ EXCEPT !.pc = "done",
                               !.response = HTTPException(400,
                                              "At least one file is required")]
                ELSE IF FirstRejected(runs[r].files) # 0
                THEN [@ EXCEPT !.pc = "done",
                               !.response =
                                 HTTPException(400,
                                   RejectionOf(runs[r].files[FirstRejected(runs[r].files)]))]
                ELSE [@ EXCEPT !.pc = "reading", !.file_idx = 1]]
  /\ UNCHANGED <<processor, combiner, clock, pc, files, saved_files, disk, file_idx,
                 response, apiVars, sheetVars, reportVars>>

\* a request from the completion of "await file.read()" to its next await or
\* to its return, the finally block included
FileRead(r) ==
  /\ runs[r].pc = "reading"
  /\ \E outcome \in {"saved", "read raises", "open raises", "write raises"} :
       \E saved_path \in {TEMP_DIR \o "/" \o FileIdOfRun(r, runs[r].file_idx)
                            \o PathSuffix(runs[r].files[runs[r].file_idx].filename)} :
         IF outcome # "saved"
         THEN /\ runs' = [runs EXCEPT ![r].pc = "done",
                                      ![r].response = InternalError(outcome)]
              /\ disk' = (IF outcome = "write raises" THEN disk \cup {saved_path} ELSE disk)
                           \ Range(runs[r].saved_files)
         ELSE IF runs[r].file_idx < Len(runs[r].files)
         THEN /\ runs' = [runs EXCEPT ![r].saved_files = Append(@, saved_path),
                                      ![r].file_idx = @ + 1]
              /\ disk' = disk \cup {saved_path}
         ELSE /\ runs' = [runs EXCEPT ![r] =
                            RunToReturn(runs, r,
                                        [@ EXCEPT !.saved_files = Append(@, saved_path)],
                                        clock)]
              /\ disk' = disk \ Range(runs[r].saved_files)
  /\ clock' = Advance(clock)
  /\ UNCHANGED <<processor, combiner, pc, files, saved_files, file_idx, response,
                 apiVars, sheetVars, reportVars>>

RunsNext == \E r \in RunIds : Begin(r) \/ FileRead(r)

SpecRuns == RunsInit /\ [][RunsNext]_vars

(***************************************************************************)
(* Claims about concurrent runs (checked under SpecRuns)                   *)
(***************************************************************************)
\* the sheet extractions of the first n uploads, each workbook processed on
\* its own
RECURSIVE OwnExtractions(_, _)
OwnExtractions(uploads, n) ==
  IF n = 0 THEN <<>>
  ELSE OwnExtractions(uploads, n - 1)
       \o process_workbook(NewProcessor,
                           [path |-> "", ok |-> uploads[n].ok, tabs |-> uploads[n].tabs],
                           uploads[n].filename, 1).value

SheetsOf(records) ==
  [i \in 1..Len(records) |-> <<records[i]["workbook_name"], records[i]["sheet_name"]>>]

\* the request got as far as its processing loop
Processed(run) ==
  run.pc = "done" /\ run.files # <<>> /\ Len(run.saved_files) = Len(run.files)

\* the workbooks the request processed without error
ProcessedCount(run) ==
  IF run.response.status = 200 THEN Len(run.files) ELSE run.file_idx - 1

\* what the request accumulated and reported is what its own workbooks yield,
\* workbook after workbook
OwnDataOnly(run, own) ==
  /\ run.combiner.combined_rows = LineItemsOf(own)
  /\ SheetsOf(run.combiner.metadata_records)
       = [i \in 1..Len(own) |->
            <<own[i].metadata["workbook_name"], own[i].metadata["sheet_name"]>>]
  /\ Range(run.combiner.source_files)
       = {own[i].metadata["workbook_name"] : i \in 1..Len(own)}
  /\ run.response.status = 200 =>
       /\ Len(run.combined_df.rows) = Len(LineItemsOf(own))
       /\ \A i \in 1..Len(run.combined_df.rows) :
            run.combined_df.rows[i]["_workbook_name"]
              = LineItemsOf(own)[i]["_workbook_name"]
       /\ run.summary_data.total_sheets_processed = Len(own)
       /\ run.summary_data.total_rows_extracted = Len(LineItemsOf(own))
       /\ run.summary_data.source_files = run.combiner.source_files
       /\ run.report[1].rows = Len(own)
       /\ run.report[Len(run.report)].rows
            = IF LineItemsOf(own) = <<>> THEN 1 ELSE Len(LineItemsOf(own))

\* C16: when two runs interleave at their suspension points, the combined rows,
\* metadata records, source files, combined table, run summary and report of
\* each run are those of its own workbooks alone, added in workbook order.
C16_RunsAreIsolated ==
  \A r \in RunIds :
    Processed(runs[r])
      => OwnDataOnly(runs[r], OwnExtractions(runs[r].files, ProcessedCount(runs[r])))

\* C16 witness: run b went from its first await to its report over other
\* workbooks while run a was suspended in its save loop with one file saved.
C16_Witness ==
  /\ runs["a"].pc = "reading" /\ Len(runs["a"].saved_files) = 1
  /\ runs["b"].pc = "done" /\ runs["b"].response.status = 200
  /\ Len(runs["b"].files) = 2
  /\ runs["b"].files[1].filename # runs["a"].files[1].filename
  /\ runs["b"].combiner.combined_rows # <<>>
  /\ Len(runs["b"].report) = 4

Reported(run) == run.pc = "done" /\ run.response.status = 200

\* C17: two runs of the pipeline over identical uploads yield the same combined
\* table, rows in the same order, the same study-level and account-level
\* summaries and the same report sheets; of the run summary only the timestamp
\* may differ.
C17_SameInputsSameTables ==
  \A r, o \in RunIds :
    (Reported(runs[r]) /\ Reported(runs[o]) /\ runs[r].files = runs[o].files) =>
      /\ runs[r].combiner.combined_rows = runs[o].combiner.combined_rows
      /\ runs[r].combined_df = runs[o].combined_df
      /\ runs[r].study_summary_df = runs[o].study_summary_df
      /\ runs[r].account_summary_df = runs[o].account_summary_df
      /\ runs[r].report = runs[o].report
      /\ [runs[r].summary_data EXCEPT !.processing_timestamp = 0]
           = [runs[o].summary_data EXCEPT !.processing_timestamp = 0]

\* C17 witness: two runs over the same two workbooks, stored under different
\* temporary names, have reported line items.
C17_Witness ==
  /\ Reported(runs["a"]) /\ Reported(runs["b"])
  /\ runs["a"].files = runs["b"].files
  /\ Len(runs["a"].files) = 2
  /\ runs["a"].saved_files # runs["b"].saved_files
  /\ Len(runs["a"].combined_df.rows) >= 3
  /\ runs["a"].study_summary_df.rows # <<>>

(***************************************************************************)
(* SpecNames: the two static classifiers applied to file names put         *)
(* together from a directory, a stem (prefix, month part, category part)   *)
(* and an extension                                                        *)
(***************************************************************************)
NameDirs == {"", "/tmp/uploads/", "May 2024 hospital/"}
NameExtensions == {"", ".xlsx", ".hospital", ".Sept 2023 Professional"}
NamePrefixes == {"", "AZCC "}

\* month parts with the date their first month-and-year occurrence stands for
MonthParts ==
  { [text |-> "", date |-> ""],
    [text |-> "May 2025 ", date |-> "2025-05-01"],
    [text |-> "Sept 2025 ", date |-> "2025-09-01"],
    [text |-> "sep 0099 Oct 2026 ", date |-> "0099-09-01"],
    [text |-> "MAY \t1999 ", date |-> "1999-05-01"],
    [text |-> "December 2025 Dec 2024 ", date |-> "2025-12-01"],
    [text |-> "Mar 12 Apr 2024 ", date |-> "2024-04-01"],
    [text |-> "xjun 20251 ", date |-> "2025-06-01"],
    [text |-> "May2025 ", date |-> ""],
    [text |-> "Maya 2025 Sep 25 ", date |-> ""] }

\* category parts with the tokens they hold
CategoryParts ==
  { [text |-> "Banner Hospital Invoices", hospital |-> TRUE, professional |-> FALSE],
    [text |-> "PROFESSIONAL bills", hospital |-> FALSE, professional |-> TRUE],
    [text |-> "nonprofessionals", hospital |-> FALSE, professional |-> TRUE],
    [text |-> "Professional and HOSPITAL", hospital |-> TRUE, professional |-> TRUE],
    [text |-> "Invoices", hospital |-> FALSE, professional |-> FALSE],
    [text |-> "Hosp ital Profession", hospital |-> FALSE, professional |-> FALSE] }

NameParts ==
  [dir : NameDirs, prefix : NamePrefixes, month : MonthParts, category : CategoryParts,
   ext : NameExtensions]

NameOf(parts) ==
  parts.dir \o parts.prefix \o parts.month.text \o parts.category.text \o parts.ext

NamesInit ==
  /\ request = NoRequest
  /\ returned = None
  /\ workbook_data = <<>>
  /\ processor = NewProcessor
  /\ combiner = NewCombiner(0)
  /\ clock = 1
  /\ SheetIdle /\ RunIdle /\ ReportIdle

\* both classifiers applied to a file name (each name is classified on its own)
Classify ==
  \E filename \in {NameOf(parts) : parts \in NameParts} \cup {""} :
    /\ request.op = "none"
    /\ request' = [NoRequest EXCEPT !.op = "classify", !.workbook_name = filename]
    /\ returned' = [invoice_type |-> get_invoice_type_from_filename(filename),
                    invoice_date |-> get_invoice_date_from_filename(filename)]
    /\ UNCHANGED <<processor, combiner, clock, workbook_data, sheetVars, runVars, reportVars>>

NamesNext == Classify

SpecNames == NamesInit /\ [][NamesNext]_vars

(***************************************************************************)
(* Claims about the classifiers (checked under SpecNames)                  *)
(***************************************************************************)
Classified == request.op = "classify"

\* the parts the classified name was put together from
PartsOfName == CHOOSE parts \in NameParts : NameOf(parts) = request.workbook_name

\* C18 as stated: the category is hospital when the stem holds "hospital",
\* professional when the stem holds "professional", unknown when it holds
\* neither; directory and extension are not inspected.
C18_CategoryByToken ==
  Classified =>
    IF request.workbook_name = "" THEN returned.invoice_type = "unknown"
    ELSE /\ PartsOfName.category.hospital => returned.invoice_type = "hospital"
         /\ PartsOfName.category.professional => returned.invoice_type = "professional"
         /\ (~PartsOfName.category.hospital /\ ~PartsOfName.category.professional)
              => returned.invoice_type = "unknown"

\* C18 amended: the category is exactly one of hospital, professional,
\* unknown: hospital when the stem holds "hospital" in any letter case,
\* professional when the stem holds "professional" and does not hold
\* "hospital", unknown when it holds neither (the empty name included);
\* directory and extension are not inspected.
C18_CategoryHospitalFirst ==
  Classified =>
    returned.invoice_type =
      IF request.workbook_name = "" THEN "unknown"
      ELSE IF PartsOfName.category.hospital THEN "hospital"
      ELSE IF PartsOfName.category.professional THEN "professional"
      ELSE "unknown"

\* C18 witness: a name whose directory holds "hospital" and whose extension
\* holds "Professional" while the stem holds neither is unknown.
C18_Witness ==
  /\ Classified
  /\ request.workbook_name = "May 2024 hospital/AZCC Invoices.Sept 2023 Professional"
  /\ returned.invoice_type = "unknown"

\* C19: the date is "YYYY-MM-01" of the leftmost month name of the stem that
\* is followed by whitespace and four digits (full or abbreviated name, any
\* letter case, "sep" and "sept" both month 09, the digits taken as they
\* are); it is "" exactly when the stem has no such occurrence; later
\* occurrences, the directory and the extension have no effect.
C19_DateOfFirstOccurrence ==
  Classified =>
    returned.invoice_date =
      IF request.workbook_name = "" THEN "" ELSE PartsOfName.month.date

\* C19 witness: of two occurrences in the stem the left one, with the
\* implausible year 0099, makes the date, while the directory and the
\* extension hold other months.
C19_Witness ==
  /\ Classified
  /\ request.workbook_name =
       "May 2024 hospital/AZCC sep 0099 Oct 2026 PROFESSIONAL bills.Sept 2023 Professional"
  /\ returned.invoice_date = "0099-09-01"

(***************************************************************************)
(* SpecTable: the steps of extract_table_data on one sheet: the header     *)
(* search, the search for the end of the table, and the extraction         *)
(***************************************************************************)
TableSheets ==
  {GridOf(DefaultMeta, 0, header, data) :
     header \in {Header1, Header2}, data \in SeqsUpTo(DataRowPool, MaxDataRows)}

TableInit ==
  /\ processor \in {set_sheet_name(set_workbook_name(NewProcessor, w), "Bill 1") :
                      w \in SheetWorkbookNames}
  /\ df \in TableSheets
  /\ located = NotFound
  /\ sheet_data = NoSheetData
  /\ calls = {}
  /\ combiner = NewCombiner(0)
  /\ clock = 1
  /\ ApiIdle /\ RunIdle /\ ReportIdle

\* data_end = self._find_data_end_row(df, data_start) for the table found
FindDataEnd ==
  /\ "find_data_end_row" \notin calls
  /\ \E loc \in {find_header_and_column_map(processor.current_invoice_type, df)} :
       /\ loc.found
       /\ returned' = [data_start |-> loc.data_start,
                       data_end |-> find_data_end_row(df, loc.data_start)]
  /\ calls' = calls \cup {"find_data_end_row"}
  /\ UNCHANGED <<processor, df, located, sheet_data, combiner, clock, workbook_data,
                 request, runVars, reportVars>>

TableNext == FindHeader \/ FindDataEnd \/ ExtractSheet

SpecTable == TableInit /\ [][TableNext]_vars

(***************************************************************************)
(* Claims about the end of the table (checked under SpecTable)             *)
(***************************************************************************)
EndFound == "find_data_end_row" \in calls

\* row r is completely empty, or one of its cells holds an end marker
EndsTable(grid, r) ==
  \/ \A col \in 0..(NumCols(grid) - 1) :
       IsNA(Cell(grid, r, col)) \/ Strip(Cell(grid, r, col).s) = ""
  \/ \E col \in 0..(NumCols(grid) - 1) :
       /\ ~IsNA(Cell(grid, r, col))
       /\ \/ Contains(Upper(Strip(Cell(grid, r, col).s)), "TOTAL AMOUNT DUE")
          \/ Contains(Upper(Strip(Cell(grid, r, col).s)), "BALANCE THIS STATEMENT")

EndingRows(grid, from) == {r \in from..(NumRows(grid) - 1) : EndsTable(grid, r)}

StatedEnd(grid, from) ==
  IF EndingRows(grid, from) = {} THEN NumRows(grid)
  ELSE CHOOSE r \in EndingRows(grid, from) : \A q \in EndingRows(grid, from) : r <= q

\* the rows of [from, to) none of whose three target cells is missing
CompleteRows(grid, from, to, col_map) ==
  {r \in from..(to - 1) :
     \A t \in Range(TARGET_COLUMNS) : parse_currency(Cell(grid, r, col_map[t])) # NoAmount}

\* the complete rows that become line items: those with an amount that is a number
ItemRows(grid, from, to, col_map) ==
  {r \in CompleteRows(grid, from, to, col_map) :
     \E t \in Range(TARGET_COLUMNS) : parse_currency(Cell(grid, r, col_map[t])) # NanAmount}

\* the amount a line item holds for a cell (not-a-number is stored as missing)
ItemAmount(cell) ==
  IF parse_currency(cell) = NanAmount THEN NoAmount ELSE parse_currency(cell)

NthRow(rows, i) == CHOOSE r \in rows : Cardinality({q \in rows : q < r}) = i - 1

\* the line items are the given rows, in row order
ItemsFromRows(grid, items, rows, col_map) ==
  /\ Len(items) = Cardinality(rows)
  /\ \A i \in 1..Len(items) : \A t \in Range(TARGET_COLUMNS) :
       items[i][t] = ItemAmount(Cell(grid, NthRow(rows, i), col_map[t]))

ItemsEndAt(grid, items, loc) ==
  loc.found =>
    ItemsFromRows(grid, items,
                  ItemRows(grid, loc.data_start, StatedEnd(grid, loc.data_start),
                           loc.col_map),
                  loc.col_map)

\* C22: _find_data_end_row returns the smallest row at or after data_start_row
\* that is completely empty or holds "TOTAL AMOUNT DUE" or "BALANCE THIS
\* STATEMENT" in a cell (trimmed, upper-cased), and len(grid) when there is
\* none; the line items come from the rows before it only, and a row that is
\* merely incomplete does not end the table.
C22_TableEndsAtFirstEndRow ==
  /\ EndFound => returned.data_end = StatedEnd(df, returned.data_start)
  /\ Extracted =>
       ItemsEndAt(df, sheet_data.table_data,
                  find_header_and_column_map(processor.current_invoice_type, df))

\* C22 witness: the table ends at its first row, a marker row whose three
\* target cells parse, and the row below it is complete too; no line item is
\* extracted.
C22_Witness ==
  /\ EndFound /\ Extracted /\ Located /\ located.found
  /\ returned.data_end = returned.data_start
  /\ returned.data_end + 2 = NumRows(df)
  /\ ~(\A col \in 0..(NumCols(df) - 1) :
         IsNA(Cell(df, returned.data_end, col)) \/ Strip(Cell(df, returned.data_end, col).s) = "")
  /\ ItemRows(df, returned.data_end, NumRows(df), located.col_map)
       = {returned.data_end, returned.data_end + 1}
  /\ sheet_data.table_data = <<>>

(***************************************************************************)
(* SpecSnapshot: a combiner driven by a caller that keeps the run summary  *)
(* it obtained while it goes on adding sheets and resetting.  The summary  *)
(* dict holds self.source_files itself ('source_files': self.source_files),*)
(* not a copy: add_sheet_data appends to that list object, reset binds a   *)
(* new list to the attribute.  Its 'sheets' list is built per call.        *)
(***************************************************************************)
SnapshotInit ==
  /\ processor = NewProcessor
  /\ combiner = NewCombiner(1)
  /\ clock = Advance(1)
  /\ workbook_data \in
       {HeldExtractions(call1, call2, <<TabNamed("Bill 1")>>) :
          call1 \in WorkbookCalls, call2 \in WorkbookCalls}
  /\ request = NoRequest
  /\ returned = None
  /\ combined_df = NoFrame
  /\ summary_data = NoSummaryData
  /\ shares_source_files = FALSE
  /\ study_summary_df = NoFrame
  /\ account_summary_df = NoFrame
  /\ report = <<>>
  /\ SheetIdle /\ RunIdle

\* the summary the caller holds, seen after a call that left the combiner as comb
SummarySeenAfter(summary, shares, comb) ==
  IF shares THEN [summary EXCEPT !.source_files = comb.source_files] ELSE summary

\* summary_data = combiner.get_summary_data()
KeepSummaryData ==
  /\ summary_data' = get_summary_data(combiner)
  /\ shares_source_files' = TRUE
  /\ request' = [NoRequest EXCEPT !.op = "get_summary_data"]
  /\ returned' = get_summary_data(combiner)
  /\ UNCHANGED <<processor, combiner, workbook_data, clock, sheetVars, runVars,
                 combined_df, study_summary_df, account_summary_df, report>>

AddSheetDataLater ==
  \E i \in 1..Len(workbook_data) :
    /\ Len(combiner.metadata_records) < MaxRecords
    /\ combiner' = add_sheet_data(combiner, workbook_data[i])
    /\ summary_data' = SummarySeenAfter(summary_data, shares_source_files,
                                        add_sheet_data(combiner, workbook_data[i]))
    /\ workbook_data' = [workbook_data EXCEPT ![i] = WithCounts(@)]
    /\ request' = [NoRequest EXCEPT !.op = "add_sheet_data",
                                    !.added = <<workbook_data[i]>>]
    /\ returned' = None
    /\ UNCHANGED <<processor, clock, sheetVars, runVars, shares_source_files,
                   combined_df, study_summary_df, account_summary_df, report>>

AddWorkbookDataLater ==
  \E from \in 1..Len(workbook_data), to \in 1..Len(workbook_data) :
    /\ from < to
    /\ Len(combiner.metadata_records) + (to - from + 1) <= MaxRecords
    /\ combiner' = add_workbook_data(combiner, SubSeq(workbook_data, from, to))
    /\ summary_data' =
         SummarySeenAfter(summary_data, shares_source_files,
                          add_workbook_data(combiner, SubSeq(workbook_data, from, to)))
    /\ workbook_data' = [i \in 1..Len(workbook_data) |->
                           IF from <= i /\ i <= to THEN WithCounts(workbook_data[i])
                           ELSE workbook_data[i]]
    /\ request' = [NoRequest EXCEPT !.op = "add_workbook_data",
                                    !.added = SubSeq(workbook_data, from, to)]
    /\ returned' = None
    /\ UNCHANGED <<processor, clock, sheetVars, runVars, shares_source_files,
                   combined_df, study_summary_df, account_summary_df, report>>

ResetLater ==
  /\ combiner' = reset(combiner, clock)
  /\ clock' = Advance(clock)
  /\ shares_source_files' = FALSE
  /\ request' = [NoRequest EXCEPT !.op = "reset"]
  /\ returned' = None
  /\ UNCHANGED <<processor, workbook_data, sheetVars, runVars, summary_data,
                 combined_df, study_summary_df, account_summary_df, report>>

SnapshotNext == KeepSummaryData \/ AddSheetDataLater \/ AddWorkbookDataLater \/ ResetLater

SpecSnapshot == SnapshotInit /\ [][SnapshotNext]_vars

(***************************************************************************)
(* Claims about a run summary that is kept (checked under SpecSnapshot)    *)
(***************************************************************************)
\* C29 as stated: a run summary get_summary_data returned has
\* total_source_files equal to the length of its source_files list and
\* total_sheets_processed equal to the length of its sheets list, and both
\* still hold for it after any later add_sheet_data, add_workbook_data or
\* reset call on the combiner.
C29_SummaryIsStableSnapshot ==
  /\ summary_data.total_source_files = Len(summary_data.source_files)
  /\ summary_data.total_sheets_processed = Len(summary_data.sheets)

=============================================================================
